---- MODULE Spec2Model ----
(***************************************************************************)
(* State-machine model of the in-memory file system of unixFileSystem.py:  *)
(* BlockManager (free-list allocator), INode/File/Directory, and the       *)
(* FileSystem facade (mkdir, create_file, write, read, ls, delete).        *)
(*                                                                         *)
(* Representation choices:                                                 *)
(*   - a path is a sequence of one-character strings, so that split and    *)
(*     rsplit are computed and not assumed;                                *)
(*   - Python objects live in `heap`, a sequence of INode records; the     *)
(*     address of an object is its index.  Directory entries and the       *)
(*     registry `inodes` hold addresses (object references);               *)
(*   - a DataBlock's bytearray(BLOCK_SIZE) is kept as the set of           *)
(*     <<offset, byte>> pairs of its non-zero bytes (every other offset    *)
(*     below BLOCK_SIZE reads 0);                                          *)
(*   - a return value is a record [kind, val]; kind "raise" is an          *)
(*     exception that escapes to the caller.                               *)
(***************************************************************************)
EXTENDS Integers, Sequences, FiniteSets, TLC

VARIABLES
    free_blocks,    \* BlockManager.free_blocks: list of block ids
    data_blocks,    \* FileSystem.data_blocks: block id -> DataBlock contents
    heap,           \* the INode objects ever constructed
    inodes,         \* FileSystem.inodes: inode_id -> object
    next_inode_id,  \* FileSystem.next_inode_id
    root,           \* FileSystem.root
    shadow,         \* history: <<file, position, byte>> of the last successful write covering position
    orphans,        \* history: the objects that were beneath a directory when delete removed it
    bm_lock,        \* BlockManager.lock: the caller inside allocate/free, or 0
    spawned,        \* history: the file system as it was when the threads were started
    pc,             \* per thread: position inside its facade call
    loc,            \* per thread: the call's arguments and local variables
    held,           \* per BlockManager caller: ids allocated and not yet freed
    cls,            \* the class FileSystem: _instance, _lock, and _initialized of the instance
    vending,        \* vendingMachine.py: the VendingMachine, its Inventory and CashRegister
    atm,            \* atm.py: the BankService accounts, the CashDispenser and the ATM session
    reminders,      \* taskManagementSystem.py: the ReminderService and its timers
    lot,            \* parkinLotDesgin.py: the ParkingLot, its levels, spots and tickets
    signal,         \* trafficSignal.py: the IntersectionController and its lights
    coffee,         \* coffeeMachine.py: the IngredientInventory, the CashRegister and the machine's lock
    session         \* history of the ATM's card reader: the card inserted and whether its PIN was the last one entered

fsvars == <<free_blocks, data_blocks, heap, inodes, next_inode_id, root>>
thrvars == <<bm_lock, spawned, pc, loc, held>>
vars == <<free_blocks, data_blocks, heap, inodes, next_inode_id, root,
          shadow, orphans, bm_lock, spawned, pc, loc, held, cls,
          vending, atm, reminders, lot, signal, coffee, session>>

-----------------------------------------------------------------------------
(* Program constants and bounds *)

BLOCK_SIZE == 4096

\* total_blocks, the constructor's argument
TotalBlocks == 2

\* inode ids handed out are capped: creation is disabled once next_inode_id exceeds it
MaxInodes == 3

None == -1

Sep == "/"

Paths ==
    { <<>>, <<"a">>, <<"/">>, <<"/", "a">>, <<"/", "b">>, <<"/", "a", "/">>,
      <<"/", "a", "/", "b">> }

Payloads == { <<1>>, <<2, 3>> }

Offsets == { 0, BLOCK_SIZE - 1 }

ReadSizes == { 1, 3 }

-----------------------------------------------------------------------------
(* Return values *)

Bool(b) == [kind |-> "bool", val |-> b]
Bytes(s) == [kind |-> "bytes", val |-> s]
Names(s) == [kind |-> "list", val |-> s]
RetNone == [kind |-> "none", val |-> None]
Raise(e) == [kind |-> "raise", val |-> e]

IsTrue(r) == r.kind = "bool" /\ r.val = TRUE
IsFalse(r) == r.kind = "bool" /\ r.val = FALSE

NoRepeatSeq(seq) == \A i, j \in DOMAIN seq : i # j => seq[i] # seq[j]

Max(a, b) == IF a >= b THEN a ELSE b
Min(a, b) == IF a <= b THEN a ELSE b

-----------------------------------------------------------------------------
(* str.split("/"), str.rsplit("/", 1) *)

RECURSIVE SplitAcc(_, _, _, _)
SplitAcc(s, i, acc, cur) ==
    IF i > Len(s) THEN Append(acc, cur)
    ELSE IF s[i] = Sep THEN SplitAcc(s, i + 1, Append(acc, cur), <<>>)
    ELSE SplitAcc(s, i + 1, acc, Append(cur, s[i]))

split(s) == SplitAcc(s, 1, <<>>, <<>>)

\* mutant: empty segments are kept
AnySegment(p) == TRUE

\* [p for p in path.split("/") if p]
NonEmpty(p) == p # <<>>
parts(path) == SelectSeq(split(path), NonEmpty)

\* path.rsplit("/", 1): one element when path holds no separator
rsplit(s) ==
    LET idx == {i \in 1..Len(s) : s[i] = Sep} IN
    IF idx = {} THEN <<s>>
    ELSE LET k == CHOOSE i \in idx : \A j \in idx : j <= i IN
         <<SubSeq(s, 1, k - 1), SubSeq(s, k + 1, Len(s))>>

\* parent_path or "/"
OrRoot(p) == IF p = <<>> THEN <<Sep>> ELSE p

-----------------------------------------------------------------------------
(* DataBlock *)

DataBlock == {}

ByteAt(d, off) ==
    IF \E p \in d : p[1] = off THEN (CHOOSE p \in d : p[1] = off)[2] ELSE 0

SetByte(d, off, byte) ==
    {p \in d : p[1] # off} \cup (IF byte = 0 THEN {} ELSE {<<off, byte>>})

-----------------------------------------------------------------------------
(* BlockManager *)

BlockManagerInit(total_blocks) == [i \in 1..total_blocks |-> i - 1]

\* mutant: the last id is returned but stays in the free list
allocate_kept(fb) ==
    IF fb # <<>> THEN [blk |-> fb[Len(fb)], free_blocks |-> fb]
    ELSE [blk |-> None, free_blocks |-> fb]

\* free_blocks.pop() if free_blocks else None: the id returned and the list left
allocate(fb) ==
    IF fb # <<>> THEN [blk |-> fb[Len(fb)], free_blocks |-> SubSeq(fb, 1, Len(fb) - 1)]
    ELSE [blk |-> None, free_blocks |-> fb]

\* mutant: the id is dropped instead of returned to the free list
free_dropped(fb, block_id) == fb

free(fb, block_id) == Append(fb, block_id)

-----------------------------------------------------------------------------
(* INode, File, Directory *)

EmptyEntries == [n \in {} |-> None]

INode(inode_id, is_dir) ==
    [inode_id |-> inode_id, is_dir |-> is_dir, size |-> 0, blocks |-> <<>>,
     lock |-> 0, entries |-> EmptyEntries]

File(inode_id) == INode(inode_id, FALSE)
Directory(inode_id) == INode(inode_id, TRUE)

\* d[k] = v on a dict
Put(d, k, v) == [x \in DOMAIN d \cup {k} |-> IF x = k THEN v ELSE d[x]]
\* mutant: the dict is cleared
DelAll(d, k) == [x \in {} |-> d[x]]

\* del d[k]
Del(d, k) == [x \in DOMAIN d \ {k} |-> d[x]]
\* mutant: the entry is read but not removed
pop_kept(d, k) == d

\* d.pop(k, None): the dict left
pop(d, k) == [x \in DOMAIN d \ {k} |-> d[x]]

-----------------------------------------------------------------------------
(* The file system as a value: the facade's methods as functions of it *)

FS == [free_blocks |-> free_blocks, data_blocks |-> data_blocks, heap |-> heap,
       inodes |-> inodes, next_inode_id |-> next_inode_id, root |-> root]

\* FileSystem.__init__
FileSystemInit(total_blocks) ==
    [free_blocks |-> BlockManagerInit(total_blocks),
     data_blocks |-> EmptyEntries,
     heap |-> <<Directory(1)>>,
     inodes |-> Put(EmptyEntries, 1, 1),
     next_inode_id |-> 2,
     root |-> 1]

IsDirectory(fs, a) == a # None /\ fs.heap[a].is_dir
\* mutant: any inode passes for a file
IsNode(fs, a) == a # None

IsFile(fs, a) == a # None /\ ~fs.heap[a].is_dir

RECURSIVE Walk(_, _, _, _)
Walk(fs, cur, ps, i) ==
    IF i > Len(ps) THEN cur
    ELSE IF ~fs.heap[cur].is_dir THEN None
    ELSE IF ps[i] \notin DOMAIN fs.heap[cur].entries THEN None
    ELSE Walk(fs, fs.heap[cur].entries[ps[i]], ps, i + 1)

traverse(fs, path) == Walk(fs, fs.root, parts(path), 1)

\* mutant: the name is entered without the test for an existing entry
create_overwriting(fs, path, is_dir) ==
    LET sp == rsplit(path) IN
    IF Len(sp) # 2 THEN [fs |-> fs, ret |-> Raise("ValueError")]
    ELSE
    LET parent == traverse(fs, OrRoot(sp[1]))
        name == sp[2]
    IN  IF ~IsDirectory(fs, parent) THEN [fs |-> fs, ret |-> Bool(FALSE)]
        ELSE
        LET iid == fs.next_inode_id
            addr == Len(fs.heap) + 1
            h1 == Append(fs.heap, INode(iid, is_dir))
        IN  [fs |-> [fs EXCEPT !.next_inode_id = iid + 1,
                               !.inodes = Put(fs.inodes, iid, addr),
                               !.heap = [h1 EXCEPT ![parent].entries = Put(@, name, addr)]],
             ret |-> Bool(TRUE)]

\* mkdir and create_file differ only in the class they construct
create(fs, path, is_dir) ==
    LET sp == rsplit(path) IN
    IF Len(sp) # 2 THEN [fs |-> fs, ret |-> Raise("ValueError")]
    ELSE
    LET parent == traverse(fs, OrRoot(sp[1]))
        name == sp[2]
    IN  IF ~IsDirectory(fs, parent) THEN [fs |-> fs, ret |-> Bool(FALSE)]
        ELSE IF name \in DOMAIN fs.heap[parent].entries THEN [fs |-> fs, ret |-> Bool(FALSE)]
        ELSE
        LET iid == fs.next_inode_id
            addr == Len(fs.heap) + 1
            h1 == Append(fs.heap, INode(iid, is_dir))
        IN  [fs |-> [fs EXCEPT !.next_inode_id = iid + 1,
                               !.inodes = Put(fs.inodes, iid, addr),
                               !.heap = [h1 EXCEPT ![parent].entries = Put(@, name, addr)]],
             ret |-> Bool(TRUE)]

mkdir(fs, path) == create(fs, path, TRUE)
create_file(fs, path) == create(fs, path, FALSE)

\* mutant: the block is appended without its DataBlock
RECURSIVE grow_bare(_, _, _)
grow_bare(fs, node, end) ==
    IF end > Len(fs.heap[node].blocks) * BLOCK_SIZE THEN
        LET a == allocate(fs.free_blocks) IN
        IF a.blk = None THEN [fs |-> fs, ok |-> FALSE]
        ELSE grow_bare([fs EXCEPT !.free_blocks = a.free_blocks,
                                  !.heap[node].blocks = Append(@, a.blk)],
                       node, end)
    ELSE [fs |-> fs, ok |-> TRUE]

\* mutant: a block that was allocated before keeps its old DataBlock
RECURSIVE grow_stale(_, _, _)
grow_stale(fs, node, end) ==
    IF end > Len(fs.heap[node].blocks) * BLOCK_SIZE THEN
        LET a == allocate(fs.free_blocks) IN
        IF a.blk = None THEN [fs |-> fs, ok |-> FALSE]
        ELSE grow_stale([fs EXCEPT !.free_blocks = a.free_blocks,
                                   !.heap[node].blocks = Append(@, a.blk),
                                   !.data_blocks =
                                       IF a.blk \in DOMAIN @ THEN @
                                       ELSE Put(@, a.blk, DataBlock)],
                        node, end)
    ELSE [fs |-> fs, ok |-> TRUE]

\* the allocation loop of write: ok is FALSE when the block manager ran dry
RECURSIVE grow(_, _, _)
grow(fs, node, end) ==
    IF end > Len(fs.heap[node].blocks) * BLOCK_SIZE THEN
        LET a == allocate(fs.free_blocks) IN
        IF a.blk = None THEN [fs |-> fs, ok |-> FALSE]
        ELSE grow([fs EXCEPT !.free_blocks = a.free_blocks,
                             !.heap[node].blocks = Append(@, a.blk),
                             !.data_blocks = Put(@, a.blk, DataBlock)],
                  node, end)
    ELSE [fs |-> fs, ok |-> TRUE]

\* mutant: every byte goes to the file's first block
StoreByteFirstBlock(fs, node, idx, byte) ==
    LET blk == fs.heap[node].blocks[1] IN
    [fs EXCEPT !.data_blocks[blk] = SetByte(@, idx % BLOCK_SIZE, byte)]

\* one iteration of the copy loop: data_blocks[node.blocks[idx // B]].data[idx % B] = byte
StoreByte(fs, node, idx, byte) ==
    LET blk == fs.heap[node].blocks[(idx \div BLOCK_SIZE) + 1] IN
    [fs EXCEPT !.data_blocks[blk] = SetByte(@, idx % BLOCK_SIZE, byte)]

RECURSIVE copy(_, _, _, _, _)
copy(fs, node, data, i, idx) ==
    IF i > Len(data) THEN fs
    ELSE copy(StoreByte(fs, node, idx, data[i]), node, data, i + 1, idx + 1)

\* mutant: the blocks appended by the failed call are rolled back
NoSpaceRolledBack(before, after) == [fs |-> before, ret |-> Bool(FALSE)]

\* mutant: the failed call leaves every size at the end of the blocks held
NoSpaceGrown(before, after) ==
    [fs |-> [after EXCEPT !.heap =
                [a \in DOMAIN after.heap |->
                    [after.heap[a] EXCEPT !.size = Len(after.heap[a].blocks) * BLOCK_SIZE]]],
     ret |-> Bool(FALSE)]

\* return False  # no space: the blocks appended so far stay
NoSpace(before, after) == [fs |-> after, ret |-> Bool(FALSE)]

\* mutant: the size follows the last write
NewSizeLastWrite(size, end) == end

\* node.size = max(node.size, end)
NewSize(size, end) == Max(size, end)

write(fs, path, data, offset) ==
    LET node == traverse(fs, path) IN
    IF ~IsFile(fs, node) THEN [fs |-> fs, ret |-> Bool(FALSE)]
    ELSE
    LET end == offset + Len(data)
        g == grow(fs, node, end)
    IN  IF ~g.ok THEN NoSpace(fs, g.fs)
        ELSE LET c == copy(g.fs, node, data, 1, offset) IN
             [fs |-> [c EXCEPT !.heap[node].size = NewSize(@, end)], ret |-> Bool(TRUE)]

\* mutant: every byte is taken from the file's first block
LoadByteFirstBlock(fs, node, idx) ==
    ByteAt(fs.data_blocks[fs.heap[node].blocks[1]], idx % BLOCK_SIZE)

\* one iteration of the read loop
LoadByte(fs, node, idx) ==
    ByteAt(fs.data_blocks[fs.heap[node].blocks[(idx \div BLOCK_SIZE) + 1]], idx % BLOCK_SIZE)

\* mutant: read grows the file to cover the requested range
read_allocating(fs, path, size, offset) ==
    LET node == traverse(fs, path) IN
    IF ~IsFile(fs, node) THEN [fs |-> fs, ret |-> RetNone]
    ELSE [fs |-> grow(fs, node, offset + size).fs, ret |-> Bytes(<<>>)]

read(fs, path, size, offset) ==
    LET node == traverse(fs, path) IN
    IF ~IsFile(fs, node) THEN [fs |-> fs, ret |-> RetNone]
    ELSE IF offset >= fs.heap[node].size THEN [fs |-> fs, ret |-> Bytes(<<>>)]
    ELSE LET n == Min(size, fs.heap[node].size - offset) IN
         [fs |-> fs, ret |-> Bytes([i \in 1..n |-> LoadByte(fs, node, offset + i - 1)])]

ls(fs, path) ==
    LET node == traverse(fs, path) IN
    IF ~IsDirectory(fs, node) THEN [fs |-> fs, ret |-> RetNone]
    ELSE [fs |-> fs, ret |-> Names(DOMAIN fs.heap[node].entries)]

RECURSIVE free_all(_, _, _)
free_all(fb, blocks, i) ==
    IF i > Len(blocks) THEN fb ELSE free_all(free(fb, blocks[i]), blocks, i + 1)

delete(fs, path) ==
    LET sp == rsplit(path) IN
    IF Len(sp) # 2 THEN [fs |-> fs, ret |-> Raise("ValueError")]
    ELSE
    LET parent == traverse(fs, OrRoot(sp[1]))
        name == sp[2]
    IN  IF ~IsDirectory(fs, parent) THEN [fs |-> fs, ret |-> Bool(FALSE)]
        ELSE IF name \notin DOMAIN fs.heap[parent].entries THEN [fs |-> fs, ret |-> Bool(FALSE)]
        ELSE
        LET node == fs.heap[parent].entries[name]
            f1 == [fs EXCEPT !.heap[parent].entries = pop(@, name)]
            f2 == IF ~fs.heap[node].is_dir
                  THEN [f1 EXCEPT !.free_blocks = free_all(@, fs.heap[node].blocks, 1)]
                  ELSE f1
            iid == fs.heap[node].inode_id
        IN  IF iid \notin DOMAIN f2.inodes THEN [fs |-> f2, ret |-> Raise("KeyError")]
            ELSE [fs |-> [f2 EXCEPT !.inodes = Del(@, iid)], ret |-> Bool(TRUE)]

-----------------------------------------------------------------------------
(* Reference-counted reclamation: an INode object that neither the root, the
   registry nor any directory entry of a live object refers to is reclaimed by
   the runtime once the call that dropped it returns.  Its heap slot is kept
   (addresses are never reused) and holds Reclaimed. *)

Reclaimed ==
    [inode_id |-> None, is_dir |-> FALSE, size |-> 0, blocks |-> <<>>,
     lock |-> 0, entries |-> EmptyEntries]

Range(f) == {f[x] : x \in DOMAIN f}

RECURSIVE Closure(_, _)
Closure(fs, live) ==
    LET more == live \cup UNION {Range(fs.heap[a].entries) : a \in live} IN
    IF more = live THEN live ELSE Closure(fs, more)

Live(fs) == Closure(fs, {fs.root} \cup Range(fs.inodes))

Collect(fs) ==
    [fs EXCEPT !.heap = [a \in DOMAIN fs.heap |->
                            IF a \in Live(fs) THEN fs.heap[a] ELSE Reclaimed]]

-----------------------------------------------------------------------------
(* vendingMachine.py: Coin, Product, Inventory, CashRegister, VendingMachine *)

\* a Coin is written as its value
Coin == {1, 5, 10, 25, 100, 500, 1000}

\* sorted(self.coins.keys(), key=lambda c: c.value, reverse=True)
Descending == <<1000, 500, 100, 25, 10, 5, 1>>

Product(product_id, price, quantity) ==
    [product_id |-> product_id, price |-> price, quantity |-> quantity]

Sold(p) == [kind |-> "product", val |-> p]
Change(s) == [kind |-> "coins", val |-> s]

RECURSIVE Total(_)
Total(coins) ==
    IF coins = <<>> THEN 0 ELSE Head(coins) + Total(Tail(coins))

\* Inventory.restock
restock(products, product) ==
    IF product.product_id \in DOMAIN products
    THEN [products EXCEPT ![product.product_id].quantity = @ + product.quantity]
    ELSE Put(products, product.product_id, product)

\* Inventory.is_available
is_available(products, product_id) ==
    product_id \in DOMAIN products /\ products[product_id].quantity > 0

\* Inventory.decrement
decrement(products, product_id) ==
    IF is_available(products, product_id)
    THEN [products |-> [products EXCEPT ![product_id].quantity = @ - 1],
          ret |-> TRUE]
    ELSE [products |-> products, ret |-> FALSE]

\* CashRegister.add_coins; also the loops that put a change list back
RECURSIVE add_coins(_, _)
add_coins(coins, list) ==
    IF list = <<>> THEN coins
    ELSE add_coins([coins EXCEPT ![Head(list)] = @ + 1], Tail(list))

\* the two loops of get_change, from denomination Descending[i] on
RECURSIVE Greedy(_, _, _, _)
Greedy(coins, remaining, change, i) ==
    IF i > Len(Descending)
    THEN [coins |-> coins, remaining |-> remaining, change |-> change]
    ELSE LET coin == Descending[i] IN
         IF remaining >= coin /\ coins[coin] > 0
         THEN Greedy([coins EXCEPT ![coin] = @ - 1], remaining - coin,
                     Append(change, coin), i)
         ELSE Greedy(coins, remaining, change, i + 1)

\* CashRegister.get_change
get_change(coins, amount) ==
    LET g == Greedy(coins, amount, <<>>, 1) IN
    IF g.remaining # 0
    THEN [coins |-> add_coins(g.coins, g.change), ret |-> RetNone]
    ELSE [coins |-> g.coins, ret |-> Change(g.change)]

\* CashRegister.collect_all
collect_all(coins) ==
    [coins |-> [c \in DOMAIN coins |-> 0], ret |-> coins]

VendingMachineInit ==
    [inventory |-> EmptyEntries, cash_register |-> [c \in Coin |-> 0]]

\* VendingMachine.purchase: ret is the pair returned
purchase(vm, product_id, inserted) ==
    IF ~is_available(vm.inventory, product_id)
    THEN [vm |-> vm, ret |-> <<RetNone, inserted>>]
    ELSE
    LET total == Total(inserted)
        price == vm.inventory[product_id].price
    IN
    IF total < price THEN [vm |-> vm, ret |-> <<RetNone, inserted>>]
    ELSE
    LET added == add_coins(vm.cash_register, inserted)
        change == get_change(added, total - price)
    IN
    IF change.ret.kind = "none"
    THEN [vm |-> [vm EXCEPT !.cash_register = change.coins],
          ret |-> <<RetNone, inserted>>]
    ELSE
    LET success == decrement(vm.inventory, product_id) IN
    IF ~success.ret
    THEN [vm |-> [vm EXCEPT !.cash_register =
                                add_coins(change.coins, change.ret.val)],
          ret |-> <<RetNone, inserted>>]
    ELSE [vm |-> [inventory |-> success.products,
                  cash_register |-> change.coins],
          ret |-> <<Sold(success.products[product_id]), change.ret.val>>]

-----------------------------------------------------------------------------
(* atm.py: Account, BankService, CashDispenser, ATM *)

Account(pin, balance) == [pin |-> pin, balance |-> balance]

\* _current_card is None
NoCard == "<None>"

\* Account.withdraw
Account_withdraw(acct, amount) ==
    IF acct.balance >= amount
    THEN [acct |-> [acct EXCEPT !.balance = @ - amount], ret |-> TRUE]
    ELSE [acct |-> acct, ret |-> FALSE]

\* mutant: the credit is lost
Account_deposit_lost(acct, amount) == acct

\* Account.deposit
Account_deposit(acct, amount) == [acct EXCEPT !.balance = @ + amount]

\* BankService.authenticate
authenticate(accounts, card_number, pin) ==
    card_number \in DOMAIN accounts /\ accounts[card_number].pin = pin

\* BankService.withdraw
BankService_withdraw(accounts, card_number, amount) ==
    IF card_number \in DOMAIN accounts
    THEN LET r == Account_withdraw(accounts[card_number], amount) IN
         [accounts |-> [accounts EXCEPT ![card_number] = r.acct], ret |-> r.ret]
    ELSE [accounts |-> accounts, ret |-> FALSE]

\* BankService.deposit
BankService_deposit(accounts, card_number, amount) ==
    IF card_number \in DOMAIN accounts
    THEN [accounts |-> [accounts EXCEPT ![card_number] =
                            Account_deposit(@, amount)],
          ret |-> TRUE]
    ELSE [accounts |-> accounts, ret |-> FALSE]

\* sorted(keys, reverse=True)
RECURSIVE SortedReverse(_)
SortedReverse(keys) ==
    IF keys = {} THEN <<>>
    ELSE LET m == CHOOSE k \in keys : \A j \in keys : j <= k IN
         <<m>> \o SortedReverse(keys \ {m})

\* the value of a denomination -> count dict
RECURSIVE Cash(_)
Cash(bills) ==
    IF DOMAIN bills = {} THEN 0
    ELSE LET d == CHOOSE k \in DOMAIN bills : TRUE IN
         d * bills[d] + Cash(Del(bills, d))

\* the first loop of dispense
RECURSIVE Plan(_, _, _, _)
Plan(bills, denoms, remain, to_dispense) ==
    IF denoms = <<>> THEN [remain |-> remain, to_dispense |-> to_dispense]
    ELSE LET denom == Head(denoms)
             count == Min(remain \div denom, bills[denom])
         IN  IF count # 0
             THEN Plan(bills, Tail(denoms), remain - denom * count,
                       Put(to_dispense, denom, count))
             ELSE Plan(bills, Tail(denoms), remain, to_dispense)

Dispensed(d) == [kind |-> "bills", val |-> d]

\* not dispensed: None, or an empty dict
Falsy(r) == r.kind = "none" \/ DOMAIN r.val = {}

\* CashDispenser.dispense
dispense(bills, amount) ==
    LET p == Plan(bills, SortedReverse(DOMAIN bills), amount, EmptyEntries) IN
    IF p.remain # 0 THEN [bills |-> bills, ret |-> RetNone]
    ELSE [bills |-> [d \in DOMAIN bills |->
                        IF d \in DOMAIN p.to_dispense
                        THEN bills[d] - p.to_dispense[d] ELSE bills[d]],
          ret |-> Dispensed(p.to_dispense)]

\* CashDispenser.accept_deposit
accept_deposit(bills, deposit) ==
    [d \in DOMAIN bills \cup DOMAIN deposit |->
        (IF d \in DOMAIN bills THEN bills[d] ELSE 0)
        + (IF d \in DOMAIN deposit THEN deposit[d] ELSE 0)]

\* the bank of the example with its two accounts, a dispenser, and an ATM
ATMInit ==
    [accounts |-> [c \in {"card123", "card456"} |->
                      IF c = "card123" THEN Account("9999", 100)
                      ELSE Account("1234", 30)],
     bills |-> [d \in {50, 20, 10} |-> IF d = 50 THEN 1 ELSE IF d = 20 THEN 2 ELSE 0],
     current_card |-> NoCard,
     authenticated |-> FALSE]

\* ATM.insert_card
insert_card(a, card_number) ==
    [a EXCEPT !.current_card = card_number, !.authenticated = FALSE]

\* ATM.enter_pin
enter_pin(a, pin) ==
    IF a.current_card = NoCard THEN [atm |-> a, ret |-> FALSE]
    ELSE LET ok == authenticate(a.accounts, a.current_card, pin) IN
         [atm |-> [a EXCEPT !.authenticated = ok], ret |-> ok]

\* mutant: the card is taken out and the session stays authenticated
eject_card_kept(a) == [a EXCEPT !.current_card = NoCard]

\* BankService.get_balance
get_balance(accounts, card_number) ==
    IF card_number \in DOMAIN accounts
    THEN [kind |-> "int", val |-> accounts[card_number].balance]
    ELSE RetNone

\* ATM.check_balance
check_balance(a) ==
    IF ~a.authenticated THEN [atm |-> a, ret |-> RetNone]
    ELSE [atm |-> a, ret |-> get_balance(a.accounts, a.current_card)]

\* ATM.withdraw
ATM_withdraw(a, amount) ==
    IF ~a.authenticated THEN [atm |-> a, ret |-> FALSE]
    ELSE
    LET debit == BankService_withdraw(a.accounts, a.current_card, amount) IN
    IF ~debit.ret THEN [atm |-> a, ret |-> FALSE]
    ELSE
    LET dispensed == dispense(a.bills, amount) IN
    IF Falsy(dispensed.ret)
    THEN [atm |-> [a EXCEPT !.accounts =
                      BankService_deposit(debit.accounts, a.current_card,
                                          amount).accounts,
                            !.bills = dispensed.bills],
          ret |-> FALSE]
    ELSE [atm |-> [a EXCEPT !.accounts = debit.accounts,
                            !.bills = dispensed.bills],
          ret |-> TRUE]

\* ATM.deposit
ATM_deposit(a, deposit_bills) ==
    IF ~a.authenticated THEN [atm |-> a, ret |-> FALSE]
    ELSE
    LET credit == BankService_deposit(a.accounts, a.current_card,
                                      Cash(deposit_bills))
    IN  [atm |-> [a EXCEPT !.bills = accept_deposit(@, deposit_bills),
                           !.accounts = credit.accounts],
         ret |-> credit.ret]

\* ATM.eject_card
eject_card(a) == [a EXCEPT !.current_card = NoCard, !.authenticated = FALSE]

-----------------------------------------------------------------------------
(* taskManagementSystem.py: ReminderService, threading.Timer, TaskManager *)

\* the tasks of TaskManager.tasks
Tasks == {"t1", "t2"}

\* a threading.Timer: created, waiting (started), cancelled, firing (the wait is
\* over and finished was found unset), popped (_fire removed the entry), done
\* (the callback was invoked); superseded records that a later timer was stored
\* for the task while this one was waiting
Timer(task_id) == [task |-> task_id, state |-> "created", superseded |-> FALSE]

\* Timer.cancel: finished is set, which only a waiting timer notices
cancel(timer) ==
    IF timer.state \in {"created", "waiting"}
    THEN [timer EXCEPT !.state = "cancelled"]
    ELSE timer

\* ReminderService with no timers, TaskManager with its lock free; history
\* counts the "Reminder Set" entries of each task
ReminderServiceInit ==
    [timers |-> EmptyEntries, heap |-> <<>>, lock |-> 0,
     history |-> [k \in Tasks |-> 0]]

-----------------------------------------------------------------------------
(* parkinLotDesgin.py: VehicleType, ParkingSpot, Level, ParkingTicket, ParkingLot *)

MOTORCYCLE == 1
CAR == 2

\* self.levels: the level ids in order, and each level's spots in order
Levels == <<"1", "2">>

SpotsOf(level_id) ==
    IF level_id = "1" THEN <<"1-C0", "1-M0">> ELSE <<"2-C0">>

SpotIds == {"1-C0", "1-M0", "2-C0"}

spot_type(spot_id) == IF spot_id = "1-M0" THEN MOTORCYCLE ELSE CAR

\* ParkingSpot.can_fit
can_fit(spot_id, vehicle_type) == vehicle_type <= spot_type(spot_id)

\* ParkingSpot.is_free
is_free(occupied_by, spot_id) == occupied_by[spot_id] = None

\* ParkingSpot.occupy, with self.lock
occupy(occupied_by, spot_id, vehicle_id) ==
    IF occupied_by[spot_id] = None
    THEN [occupied_by |-> [occupied_by EXCEPT ![spot_id] = vehicle_id],
          ret |-> TRUE]
    ELSE [occupied_by |-> occupied_by, ret |-> FALSE]

\* ParkingSpot.free, with self.lock
free_spot(occupied_by, spot_id) == [occupied_by EXCEPT ![spot_id] = None]

ParkingTicket(vehicle_id, level_id, spot_id) ==
    [vehicle_id |-> vehicle_id, level_id |-> level_id, spot_id |-> spot_id]

\* a lot with every spot free; next_ticket stands for uuid4, released counts the
\* release_spot calls that returned True for each ticket id
ParkingLotInit ==
    [occupied_by |-> [s \in SpotIds |-> None],
     level_lock |-> [l \in {"1", "2"} |-> 0],
     tickets |-> EmptyEntries,
     next_ticket |-> 1,
     released |-> EmptyEntries]

-----------------------------------------------------------------------------
(* trafficSignal.py: SignalState, TrafficLight, Phase, IntersectionController *)

RED == "RED"
GREEN == "GREEN"
YELLOW == "YELLOW"

\* the two-phase four-way intersection of the example
Phases ==
    << [name |-> "NS_Green", lights |-> <<"North", "South">>],
       [name |-> "EW_Green", lights |-> <<"East", "West">>] >>

RECURSIVE Flatten(_)
Flatten(seqs) ==
    IF seqs = <<>> THEN <<>> ELSE Head(seqs) \o Flatten(Tail(seqs))

\* IntersectionController._all_lights
all_lights == Flatten([p \in DOMAIN Phases |-> Phases[p].lights])

\* TrafficLight.set_state, with self.lock
set_state(state, light, new_state) == [state EXCEPT ![light] = new_state]

\* any(l.approach == approach for l in phase.lights)
Serves(phase, approach) ==
    \E i \in DOMAIN phase.lights : phase.lights[i] = approach

\* the lights handle_emergency turns green, in its order
EmergencyLights(approach) ==
    Flatten([p \in DOMAIN Phases |->
                IF Serves(Phases[p], approach) THEN Phases[p].lights ELSE <<>>])

\* every light RED, current = 0, running = False, the lock free
IntersectionControllerInit ==
    [state |-> [l \in {"North", "South", "East", "West"} |-> RED],
     current |-> 0, running |-> FALSE, lock |-> 0]

-----------------------------------------------------------------------------
(* coffeeMachine.py: the coffees, the IngredientInventory, the CashRegister
   and the CoffeeVendingMachine facade *)

Ingredient == {"coffee_beans", "water", "milk", "foam"}

CoffeeType == {"Espresso", "Cappuccino", "Latte"}

\* the price of the coffee that CoffeeFactory.create(coffee_type) builds
price(coffee_type) ==
    CASE coffee_type = "Espresso" -> 150
      [] coffee_type = "Cappuccino" -> 250
      [] coffee_type = "Latte" -> 300

\* its recipe: ingredient -> quantity
recipe(coffee_type) ==
    CASE coffee_type = "Espresso" -> [coffee_beans |-> 10, water |-> 50]
      [] coffee_type = "Cappuccino" ->
             [coffee_beans |-> 10, water |-> 50, milk |-> 50, foam |-> 20]
      [] coffee_type = "Latte" -> [coffee_beans |-> 8, water |-> 50, milk |-> 100]

\* IngredientInventory.restock, inside its lock
IngredientInventory_restock(stock, ing, qty) == [stock EXCEPT ![ing] = @ + qty]

\* all(self._stock[ing] >= qty for ing, qty in recipe.items())
Sufficient(stock, r) == \A ing \in DOMAIN r : stock[ing] >= r[ing]

\* the rest of consume once is_available(recipe) has returned ok: return False,
\* or self._stock[ing] -= qty for every ingredient of the recipe and return True
\* (the low-stock callbacks only print)
consume_rest(stock, r, ok) ==
    IF ~ok
    THEN [stock |-> stock, ret |-> FALSE]
    ELSE [stock |-> [ing \in DOMAIN stock |->
                        IF ing \in DOMAIN r THEN stock[ing] - r[ing] ELSE stock[ing]],
          ret |-> TRUE]

CoffeeCoin == {1, 5, 10, 25, 100}

\* sorted(Coin, key=lambda x: x.value, reverse=True)
CoinsDescending == <<100, 25, 10, 5, 1>>

\* CashRegister.add_payment; also the loops that put a change list back
RECURSIVE add_payment(_, _)
add_payment(coins, list) ==
    IF list = <<>> THEN coins
    ELSE add_payment([coins EXCEPT ![Head(list)] = @ + 1], Tail(list))

\* for c in payment: self.cash._coins[c] -= 1
RECURSIVE take_payment(_, _)
take_payment(coins, list) ==
    IF list = <<>> THEN coins
    ELSE take_payment([coins EXCEPT ![Head(list)] = @ - 1], Tail(list))

\* the two loops of CashRegister.get_change, from denomination CoinsDescending[i] on
RECURSIVE MakeChange(_, _, _, _)
MakeChange(coins, rem, change, i) ==
    IF i > Len(CoinsDescending)
    THEN [coins |-> coins, rem |-> rem, change |-> change]
    ELSE LET c == CoinsDescending[i] IN
         IF rem >= c /\ coins[c] > 0
         THEN MakeChange([coins EXCEPT ![c] = @ - 1], rem - c, Append(change, c), i)
         ELSE MakeChange(coins, rem, change, i + 1)

\* CashRegister.get_change
CashRegister_get_change(coins, amount) ==
    LET g == MakeChange(coins, amount, <<>>, 1) IN
    IF g.rem # 0
    THEN [coins |-> add_payment(g.coins, g.change), ret |-> RetNone]
    ELSE [coins |-> g.coins, ret |-> Change(g.change)]

\* CashRegister.collect_all leaves every count at 0
CashRegister_collect_all(coins) == [c \in DOMAIN coins |-> 0]

\* the machine after the example's construction: an empty inventory
\* (defaultdict(int)), an empty register, and the two locks free
CoffeeVendingMachineInit ==
    [stock |-> [ing \in Ingredient |-> 0],
     coins |-> [c \in CoffeeCoin |-> 0],
     inv_lock |-> 0,
     vm_lock |-> 0]

-----------------------------------------------------------------------------
(* The other programs of the repository: each keeps its own objects *)

others == <<vending, atm, reminders, lot, signal, coffee, session>>

\* the file system's variables other than the threads' positions and locals
unixfs == <<fsvars, shadow, orphans, cls, bm_lock, spawned, held>>

OthersInit ==
    /\ vending = VendingMachineInit
    /\ atm = ATMInit
    /\ reminders = ReminderServiceInit
    /\ lot = ParkingLotInit
    /\ signal = IntersectionControllerInit
    /\ coffee = CoffeeVendingMachineInit
    /\ session = [inserted |-> NoCard, open |-> FALSE]

-----------------------------------------------------------------------------
(* Sequential callers: one action per facade method, the whole handler *)

Init ==
    LET fs == FileSystemInit(TotalBlocks) IN
    /\ free_blocks = fs.free_blocks
    /\ data_blocks = fs.data_blocks
    /\ heap = fs.heap
    /\ inodes = fs.inodes
    /\ next_inode_id = fs.next_inode_id
    /\ root = fs.root
    /\ shadow = {}
    /\ orphans = {}
    /\ bm_lock = 0
    /\ spawned = fs
    /\ pc = <<>>
    /\ loc = <<>>
    /\ held = <<>>
    /\ cls = [instance |-> 1, lock |-> 0, initialized |-> TRUE]
    /\ OthersInit

Install(fs) ==
    /\ free_blocks' = fs.free_blocks
    /\ data_blocks' = fs.data_blocks
    /\ heap' = fs.heap
    /\ inodes' = fs.inodes
    /\ next_inode_id' = fs.next_inode_id
    /\ root' = fs.root

\* positions o .. o+len(d)-1 of file `node` now hold d
Overlay(sh, node, data, offset) ==
    {t \in sh : ~(t[1] = node /\ t[2] >= offset /\ t[2] < offset + Len(data))}
    \cup {<<node, offset + i - 1, data[i]>> : i \in 1..Len(data)}

\* the objects beneath the directory that a successful delete(path) removes
Beneath(fs, path, r) ==
    LET sp == rsplit(path) IN
    IF ~IsTrue(r) THEN {}
    ELSE LET node == fs.heap[traverse(fs, OrRoot(sp[1]))].entries[sp[2]] IN
         Closure(fs, {node}) \ {node}

Mkdir(path) ==
    LET r == mkdir(FS, path) IN
    /\ r.fs.next_inode_id <= MaxInodes + 1
    /\ Install(r.fs)
    /\ UNCHANGED <<shadow, orphans, others, cls, thrvars>>

CreateFile(path) ==
    LET r == create_file(FS, path) IN
    /\ r.fs.next_inode_id <= MaxInodes + 1
    /\ Install(r.fs)
    /\ UNCHANGED <<shadow, orphans, others, cls, thrvars>>

Write(path, data, offset) ==
    LET r == write(FS, path, data, offset) IN
    /\ Install(r.fs)
    /\ shadow' = IF IsTrue(r.ret)
                 THEN Overlay(shadow, traverse(FS, path), data, offset)
                 ELSE shadow
    /\ UNCHANGED <<orphans, others, cls, thrvars>>

Read(path, size, offset) ==
    LET r == read(FS, path, size, offset) IN
    /\ Install(r.fs)
    /\ UNCHANGED <<shadow, orphans, others, cls, thrvars>>

Ls(path) ==
    LET r == ls(FS, path) IN
    /\ Install(r.fs)
    /\ UNCHANGED <<shadow, orphans, others, cls, thrvars>>

Delete(path) ==
    LET r == delete(FS, path)
        c == Collect(r.fs)
    IN  /\ Install(c)
        /\ shadow' = {t \in shadow : t[1] \in Live(c)}
        /\ orphans' = orphans \cup Beneath(FS, path, r.ret)
        /\ UNCHANGED <<cls, thrvars, others>>

Next ==
    \/ \E p \in Paths : Mkdir(p)
    \/ \E p \in Paths : CreateFile(p)
    \/ \E p \in Paths, d \in Payloads, o \in Offsets : Write(p, d, o)
    \/ \E p \in Paths, n \in ReadSizes, o \in Offsets : Read(p, n, o)
    \/ \E p \in Paths : Ls(p)
    \/ \E p \in Paths : Delete(p)

Spec == Init /\ [][Next]_vars

-----------------------------------------------------------------------------
(* Concurrent callers of the BlockManager alone (BMSpec).  allocate and free
   run their one statement under BlockManager.lock: a caller first acquires
   the lock, then runs the body and releases.  A caller frees only an id it
   holds, and gives the id up when it makes the call. *)

Callers == {1, 2, 3}

\* with self.lock: the lock is a threading.Lock, taken only when nobody holds it
LockFree(owner) == owner = 0

\* the callers start: nobody holds an id
BMStart ==
    /\ pc = <<>>
    /\ pc' = [t \in Callers |-> "idle"]
    /\ loc' = [t \in Callers |-> None]
    /\ held' = [t \in Callers |-> <<>>]
    /\ UNCHANGED <<fsvars, shadow, orphans, others, cls, bm_lock, spawned>>

AllocateEnter(t) ==
    /\ pc # <<>> /\ pc[t] = "idle"
    /\ LockFree(bm_lock)
    /\ bm_lock' = t
    /\ pc' = [pc EXCEPT ![t] = "allocate"]
    /\ UNCHANGED <<fsvars, shadow, orphans, others, cls, spawned, loc, held>>

AllocateBody(t) ==
    /\ pc # <<>> /\ pc[t] = "allocate"
    /\ LET a == allocate(free_blocks) IN
       /\ free_blocks' = a.free_blocks
       /\ held' = IF a.blk = None THEN held ELSE [held EXCEPT ![t] = Append(@, a.blk)]
       /\ loc' = [loc EXCEPT ![t] = a.blk]
    /\ bm_lock' = 0
    /\ pc' = [pc EXCEPT ![t] = "idle"]
    /\ UNCHANGED <<data_blocks, heap, inodes, next_inode_id, root, shadow, orphans, others, cls, spawned>>

FreeEnter(t, i) ==
    /\ pc # <<>> /\ pc[t] = "idle"
    /\ i \in DOMAIN held[t]
    /\ LockFree(bm_lock)
    /\ bm_lock' = t
    /\ loc' = [loc EXCEPT ![t] = held[t][i]]
    /\ held' = [held EXCEPT ![t] = SubSeq(@, 1, i - 1) \o SubSeq(@, i + 1, Len(@))]
    /\ pc' = [pc EXCEPT ![t] = "free"]
    /\ UNCHANGED <<fsvars, shadow, orphans, others, cls, spawned>>

FreeBody(t) ==
    /\ pc # <<>> /\ pc[t] = "free"
    /\ free_blocks' = free(free_blocks, loc[t])
    /\ bm_lock' = 0
    /\ pc' = [pc EXCEPT ![t] = "idle"]
    /\ UNCHANGED <<data_blocks, heap, inodes, next_inode_id, root, shadow, orphans, others, cls, spawned,
                   loc, held>>

BMNext ==
    \/ BMStart
    \/ \E t \in Callers : AllocateEnter(t)
    \/ \E t \in Callers : AllocateBody(t)
    \/ \E t \in Callers, i \in 1..TotalBlocks : FreeEnter(t, i)
    \/ \E t \in Callers : FreeBody(t)

BMSpec == Init /\ [][BMNext]_vars

\* every id the callers hold, with repetitions
RECURSIVE HeldBy(_)
HeldBy(ts) ==
    IF ts = {} THEN <<>>
    ELSE LET t == CHOOSE x \in ts : TRUE IN held[t] \o HeldBy(ts \ {t})

\* C2: under every interleaving of allocate and free by concurrent callers,
\* each freeing only an id it holds and once, allocate never returns an id
\* that an earlier allocation still holds: no id is held twice.
AllocationExclusive ==
    pc # <<>> => NoRepeatSeq(HeldBy(Callers))

\* a caller is inside allocate while another caller holds an id and the free
\* list holds an id that free returned (it is no longer a prefix of range(n))
AllocationExclusiveWitness ==
    /\ pc # <<>>
    /\ \E t, u \in Callers : t # u /\ held[t] # <<>> /\ pc[u] = "allocate"
    /\ \E i \in DOMAIN free_blocks : free_blocks[i] # i - 1

-----------------------------------------------------------------------------
(* Concurrent callers of the facade.  The main thread first makes calls one
   after the other (the sequential actions, while no thread is started), then
   starts the threads, one facade call each.  A thread's call advances one
   shared-memory access at a time:
     begin    the path is split, _traverse starts at root
     trav     one directory lookup of _traverse
     c_*      mkdir / create_file      w_*   write
     d_*      delete                   r_*   read
     done     the call returned loc[t].ret
   BlockManager.allocate and free are single steps: their bodies run under
   BlockManager.lock (BMSpec). *)

Call(op, path, data, offset, size) ==
    [op |-> op, path |-> path, data |-> data, offset |-> offset, size |-> size]

\* a call's local variables before its first statement
InitLoc(c) ==
    [call |-> c, ps |-> <<>>, k |-> 0, cur |-> None, node |-> None, name |-> <<>>,
     end |-> 0, blk |-> None, i |-> 0, iid |-> 0, tmp |-> 0, buf |-> <<>>,
     ret |-> RetNone]

Goto(t, p, l) ==
    /\ pc' = [pc EXCEPT ![t] = p]
    /\ loc' = [loc EXCEPT ![t] = l]

\* the call returns r (or raises it); its locals are gone
Return(t, r) ==
    /\ pc' = [pc EXCEPT ![t] = "done"]
    /\ loc' = [loc EXCEPT ![t] = [InitLoc(loc[t].call) EXCEPT !.ret = r]]

Started == pc # <<>>
AllDone == Started /\ \A t \in DOMAIN pc : pc[t] = "done"
At(t, p) == Started /\ t \in DOMAIN pc /\ pc[t] = p

\* mutant: the lock is taken whoever holds it
CanAcquireAlways(owner, t) == TRUE

\* with node.lock: a threading.RLock, taken when free or already held by t
CanAcquire(owner, t) == owner = 0 \/ owner = t

CreateOps == {"mkdir", "create_file"}
SplitOps == CreateOps \cup {"delete"}

\* threads started with the calls cs (a tuple of calls, one per thread)
Spawn(cs) ==
    /\ pc = <<>>
    /\ pc' = [t \in DOMAIN cs |-> "begin"]
    /\ loc' = [t \in DOMAIN cs |-> InitLoc(cs[t])]
    /\ spawned' = FS
    /\ UNCHANGED <<fsvars, shadow, orphans, others, cls, bm_lock, held>>

\* _traverse returned n: the isinstance test that follows it
Resolved(t, l, n) ==
    LET op == l.call.op IN
    IF op \in CreateOps THEN
        IF IsDirectory(FS, n) THEN Goto(t, "c_lock", [l EXCEPT !.node = n])
        ELSE Return(t, Bool(FALSE))
    ELSE IF op = "delete" THEN
        IF IsDirectory(FS, n) THEN Goto(t, "d_lock", [l EXCEPT !.node = n])
        ELSE Return(t, Bool(FALSE))
    ELSE IF op = "write" THEN
        IF IsFile(FS, n) THEN Goto(t, "w_lock", [l EXCEPT !.node = n])
        ELSE Return(t, Bool(FALSE))
    ELSE
        IF IsFile(FS, n) THEN Goto(t, "r_lock", [l EXCEPT !.node = n])
        ELSE Return(t, RetNone)

\* the call's first statements: rsplit (mkdir, create_file, delete), then the
\* start of _traverse.  A creating call starts only below the inode-id cap.
Begin(t) ==
    /\ At(t, "begin")
    /\ loc[t].call.op \in CreateOps => next_inode_id <= MaxInodes
    /\ LET l == loc[t]
           sp == rsplit(l.call.path)
           splits == l.call.op \in SplitOps
       IN  IF splits /\ Len(sp) # 2 THEN Return(t, Raise("ValueError"))
           ELSE LET target == IF splits THEN OrRoot(sp[1]) ELSE l.call.path
                    name == IF splits THEN sp[2] ELSE <<>>
                    ps == parts(target)
                IN  IF ps = <<>> THEN Resolved(t, [l EXCEPT !.name = name], root)
                    ELSE Goto(t, "trav", [l EXCEPT !.name = name, !.ps = ps, !.k = 1, !.cur = root])
    /\ UNCHANGED <<fsvars, shadow, orphans, others, cls, bm_lock, spawned, held>>

\* one iteration of the loop of _traverse
Trav(t) ==
    /\ At(t, "trav")
    /\ LET l == loc[t]
           c == l.cur
           seg == l.ps[l.k]
       IN  IF ~heap[c].is_dir \/ seg \notin DOMAIN heap[c].entries THEN Resolved(t, l, None)
           ELSE IF l.k = Len(l.ps) THEN Resolved(t, l, heap[c].entries[seg])
           ELSE Goto(t, "trav", [l EXCEPT !.cur = heap[c].entries[seg], !.k = l.k + 1])
    /\ UNCHANGED <<fsvars, shadow, orphans, others, cls, bm_lock, spawned, held>>

(* mkdir, create_file *)

\* with parent.lock:
CLock(t) ==
    /\ At(t, "c_lock")
    /\ CanAcquire(heap[loc[t].node].lock, t)
    /\ heap' = [heap EXCEPT ![loc[t].node].lock = t]
    /\ Goto(t, "c_check", loc[t])
    /\ UNCHANGED <<free_blocks, data_blocks, inodes, next_inode_id, root, shadow, orphans, others, cls,
                   bm_lock, spawned, held>>

\* if name in parent.entries: return False; else iid = self.next_inode_id
CCheck(t) ==
    /\ At(t, "c_check")
    /\ LET l == loc[t] IN
       IF l.name \in DOMAIN heap[l.node].entries
       THEN /\ heap' = [heap EXCEPT ![l.node].lock = 0]
            /\ Return(t, Bool(FALSE))
       ELSE /\ heap' = heap
            /\ Goto(t, "c_inc", [l EXCEPT !.iid = next_inode_id])
    /\ UNCHANGED <<free_blocks, data_blocks, inodes, next_inode_id, root, shadow, orphans, others, cls,
                   bm_lock, spawned, held>>

\* self.next_inode_id += 1: the load
CIncLoad(t) ==
    /\ At(t, "c_inc")
    /\ Goto(t, "c_store", [loc[t] EXCEPT !.tmp = next_inode_id])
    /\ UNCHANGED <<fsvars, shadow, orphans, others, cls, bm_lock, spawned, held>>

\* self.next_inode_id += 1: the store
CIncStore(t) ==
    /\ At(t, "c_store")
    /\ next_inode_id' = loc[t].tmp + 1
    /\ Goto(t, "c_reg", loc[t])
    /\ UNCHANGED <<free_blocks, data_blocks, heap, inodes, root, shadow, orphans, others, cls,
                   bm_lock, spawned, held>>

\* inode = Directory(iid) or File(iid); self.inodes[inode.inode_id] = inode
CReg(t) ==
    /\ At(t, "c_reg")
    /\ LET l == loc[t]
           addr == Len(heap) + 1
       IN  /\ heap' = Append(heap, INode(l.iid, l.call.op = "mkdir"))
           /\ inodes' = Put(inodes, l.iid, addr)
           /\ Goto(t, "c_link", [l EXCEPT !.cur = addr])
    /\ UNCHANGED <<free_blocks, data_blocks, next_inode_id, root, shadow, orphans, others, cls,
                   bm_lock, spawned, held>>

\* parent.entries[name] = inode; the lock is released; return True
CLink(t) ==
    /\ At(t, "c_link")
    /\ LET l == loc[t] IN
       heap' = [heap EXCEPT ![l.node].entries = Put(@, l.name, l.cur), ![l.node].lock = 0]
    /\ Return(t, Bool(TRUE))
    /\ UNCHANGED <<free_blocks, data_blocks, inodes, next_inode_id, root, shadow, orphans, others, cls,
                   bm_lock, spawned, held>>

(* write *)

\* with node.lock: end = offset + len(data)
WLock(t) ==
    /\ At(t, "w_lock")
    /\ CanAcquire(heap[loc[t].node].lock, t)
    /\ heap' = [heap EXCEPT ![loc[t].node].lock = t]
    /\ Goto(t, "w_grow", [loc[t] EXCEPT !.end = loc[t].call.offset + Len(loc[t].call.data)])
    /\ UNCHANGED <<free_blocks, data_blocks, inodes, next_inode_id, root, shadow, orphans, others, cls,
                   bm_lock, spawned, held>>

\* while end > len(node.blocks) * BLOCK_SIZE: blk = self.block_mgr.allocate()
WGrow(t) ==
    /\ At(t, "w_grow")
    /\ LET l == loc[t] IN
       IF l.end > Len(heap[l.node].blocks) * BLOCK_SIZE
       THEN /\ LockFree(bm_lock)
            /\ LET a == allocate(free_blocks) IN
               /\ free_blocks' = a.free_blocks
               /\ Goto(t, "w_append", [l EXCEPT !.blk = a.blk])
       ELSE /\ free_blocks' = free_blocks
            /\ Goto(t, "w_copy", [l EXCEPT !.i = 1])
    /\ UNCHANGED <<data_blocks, heap, inodes, next_inode_id, root, shadow, orphans, others, cls,
                   bm_lock, spawned, held>>

\* if blk is None: return False; node.blocks.append(blk)
WAppend(t) ==
    /\ At(t, "w_append")
    /\ LET l == loc[t] IN
       IF l.blk = None
       THEN /\ heap' = [heap EXCEPT ![l.node].lock = 0]
            /\ Return(t, Bool(FALSE))
       ELSE /\ heap' = [heap EXCEPT ![l.node].blocks = Append(@, l.blk)]
            /\ Goto(t, "w_new", l)
    /\ UNCHANGED <<free_blocks, data_blocks, inodes, next_inode_id, root, shadow, orphans, others, cls,
                   bm_lock, spawned, held>>

\* self.data_blocks[blk] = DataBlock(blk)
WNew(t) ==
    /\ At(t, "w_new")
    /\ data_blocks' = Put(data_blocks, loc[t].blk, DataBlock)
    /\ Goto(t, "w_grow", [loc[t] EXCEPT !.blk = None])
    /\ UNCHANGED <<free_blocks, heap, inodes, next_inode_id, root, shadow, orphans, others, cls,
                   bm_lock, spawned, held>>

\* one iteration of: for byte in data
WCopy(t) ==
    /\ At(t, "w_copy")
    /\ loc[t].i <= Len(loc[t].call.data)
    /\ LET l == loc[t] IN
       /\ data_blocks' = StoreByte(FS, l.node, l.call.offset + l.i - 1, l.call.data[l.i]).data_blocks
       /\ Goto(t, "w_copy", [l EXCEPT !.i = l.i + 1])
    /\ UNCHANGED <<free_blocks, heap, inodes, next_inode_id, root, shadow, orphans, others, cls,
                   bm_lock, spawned, held>>

\* node.size = max(node.size, end); the lock is released; return True
WDone(t) ==
    /\ At(t, "w_copy")
    /\ loc[t].i > Len(loc[t].call.data)
    /\ LET l == loc[t] IN
       /\ heap' = [heap EXCEPT ![l.node].size = NewSize(@, l.end), ![l.node].lock = 0]
       /\ shadow' = Overlay(shadow, l.node, l.call.data, l.call.offset)
    /\ Return(t, Bool(TRUE))
    /\ UNCHANGED <<free_blocks, data_blocks, inodes, next_inode_id, root, orphans, others, cls,
                   bm_lock, spawned, held>>

(* read *)

\* with node.lock: if offset >= node.size: return b""; size = min(size, node.size - offset)
RLock(t) ==
    /\ At(t, "r_lock")
    /\ CanAcquire(heap[loc[t].node].lock, t)
    /\ LET l == loc[t] IN
       IF l.call.offset >= heap[l.node].size
       THEN /\ heap' = heap
            /\ Return(t, Bytes(<<>>))
       ELSE /\ heap' = [heap EXCEPT ![l.node].lock = t]
            /\ Goto(t, "r_copy", [l EXCEPT !.end = Min(l.call.size, heap[l.node].size - l.call.offset)])
    /\ UNCHANGED <<free_blocks, data_blocks, inodes, next_inode_id, root, shadow, orphans, others, cls,
                   bm_lock, spawned, held>>

\* one iteration of: for _ in range(size)
RCopy(t) ==
    /\ At(t, "r_copy")
    /\ Len(loc[t].buf) < loc[t].end
    /\ LET l == loc[t] IN
       Goto(t, "r_copy", [l EXCEPT !.buf = Append(@, LoadByte(FS, l.node, l.call.offset + Len(l.buf)))])
    /\ UNCHANGED <<fsvars, shadow, orphans, others, cls, bm_lock, spawned, held>>

\* return bytes(result); the lock is released
RDone(t) ==
    /\ At(t, "r_copy")
    /\ Len(loc[t].buf) >= loc[t].end
    /\ heap' = [heap EXCEPT ![loc[t].node].lock = 0]
    /\ Return(t, Bytes(loc[t].buf))
    /\ UNCHANGED <<free_blocks, data_blocks, inodes, next_inode_id, root, shadow, orphans, others, cls,
                   bm_lock, spawned, held>>

(* delete *)

\* with parent.lock:
DLock(t) ==
    /\ At(t, "d_lock")
    /\ CanAcquire(heap[loc[t].node].lock, t)
    /\ heap' = [heap EXCEPT ![loc[t].node].lock = t]
    /\ Goto(t, "d_pop", loc[t])
    /\ UNCHANGED <<free_blocks, data_blocks, inodes, next_inode_id, root, shadow, orphans, others, cls,
                   bm_lock, spawned, held>>

\* node = parent.entries.pop(name, None); the lock is released; if node: ...
DPop(t) ==
    /\ At(t, "d_pop")
    /\ LET l == loc[t] IN
       IF l.name \in DOMAIN heap[l.node].entries
       THEN /\ heap' = [heap EXCEPT ![l.node].entries = pop(@, l.name), ![l.node].lock = 0]
            /\ Goto(t, "d_free", [l EXCEPT !.cur = heap[l.node].entries[l.name], !.i = 1])
       ELSE /\ heap' = [heap EXCEPT ![l.node].lock = 0]
            /\ Return(t, Bool(FALSE))
    /\ UNCHANGED <<free_blocks, data_blocks, inodes, next_inode_id, root, shadow, orphans, others, cls,
                   bm_lock, spawned, held>>

\* one iteration of: for blk in node.blocks: self.block_mgr.free(blk)
DFree(t) ==
    /\ At(t, "d_free")
    /\ ~heap[loc[t].cur].is_dir
    /\ loc[t].i <= Len(heap[loc[t].cur].blocks)
    /\ LockFree(bm_lock)
    /\ free_blocks' = free(free_blocks, heap[loc[t].cur].blocks[loc[t].i])
    /\ Goto(t, "d_free", [loc[t] EXCEPT !.i = loc[t].i + 1])
    /\ UNCHANGED <<data_blocks, heap, inodes, next_inode_id, root, shadow, orphans, others, cls,
                   bm_lock, spawned, held>>

\* del self.inodes[node.inode_id]; return True
DUnreg(t) ==
    /\ At(t, "d_free")
    /\ heap[loc[t].cur].is_dir \/ loc[t].i > Len(heap[loc[t].cur].blocks)
    /\ LET iid == heap[loc[t].cur].inode_id IN
       IF iid \in DOMAIN inodes
       THEN /\ inodes' = Del(inodes, iid)
            /\ Return(t, Bool(TRUE))
       ELSE /\ inodes' = inodes
            /\ Return(t, Raise("KeyError"))
    /\ UNCHANGED <<free_blocks, data_blocks, heap, next_inode_id, root, shadow, orphans, others, cls,
                   bm_lock, spawned, held>>

Resolve(t) == Begin(t) \/ Trav(t)
CreateSteps(t) == CLock(t) \/ CCheck(t) \/ CIncLoad(t) \/ CIncStore(t) \/ CReg(t) \/ CLink(t)
WriteSteps(t) == WLock(t) \/ WGrow(t) \/ WAppend(t) \/ WNew(t) \/ WCopy(t) \/ WDone(t)
ReadSteps(t) == RLock(t) \/ RCopy(t) \/ RDone(t)
DeleteSteps(t) == DLock(t) \/ DPop(t) \/ DFree(t) \/ DUnreg(t)

-----------------------------------------------------------------------------
(* Concurrent mkdir / create_file (CreateSpec): the main thread may first
   create /a as a directory or as a file, then the threads Creators each make
   one creating call. *)

Creators == {1, 2, 3}
SetupPaths == { <<"/", "a">> }
CreatePaths == { <<"/", "a">>, <<"/", "a", "/", "b">> }
CreateCalls == { Call(op, p, <<>>, 0, 0) : op \in CreateOps, p \in CreatePaths }

CreateNext ==
    \/ ~Started /\ \E p \in SetupPaths : Mkdir(p)
    \/ ~Started /\ \E p \in SetupPaths : CreateFile(p)
    \/ \E cs \in [Creators -> CreateCalls] : Spawn(cs)
    \/ \E t \in Creators : Resolve(t)
    \/ \E t \in Creators : CreateSteps(t)

CreateSpec == Init /\ [][CreateNext]_vars

\* the directory a splitting call targets in fs (None when there is none) and
\* the name it targets there
ParentOf(fs, c) ==
    LET sp == rsplit(c.path) IN
    IF Len(sp) # 2 THEN None
    ELSE LET n == traverse(fs, OrRoot(sp[1])) IN IF IsDirectory(fs, n) THEN n ELSE None
NameOf(c) == rsplit(c.path)[2]

\* the threads whose creating call targets the parent directory and name of t's
Rivals(t) ==
    {u \in DOMAIN pc :
        /\ loc[u].call.op \in CreateOps
        /\ ParentOf(spawned, loc[u].call) = ParentOf(spawned, loc[t].call)
        /\ NameOf(loc[u].call) = NameOf(loc[t].call)}

Racing(t) ==
    /\ loc[t].call.op \in CreateOps
    /\ ParentOf(spawned, loc[t].call) # None
    /\ Cardinality(Rivals(t)) >= 2

Winners(t) == {u \in Rivals(t) : IsTrue(loc[u].ret)}
Losers(t) == {u \in Rivals(t) : IsFalse(loc[u].ret)}
TakenAtStart(t) ==
    NameOf(loc[t].call) \in DOMAIN spawned.heap[ParentOf(spawned, loc[t].call)].entries
EntryAtEnd(t) ==
    NameOf(loc[t].call) \in DOMAIN heap[ParentOf(spawned, loc[t].call)].entries

\* C7 as stated: of the concurrent mkdir/create_file calls on one parent
\* directory and name exactly one returns True, every other returns False, and
\* the parent ends with the entry
ExactlyOneCreatorWins ==
    AllDone => \A t \in DOMAIN pc :
        Racing(t) =>
            /\ Cardinality(Winners(t)) = 1
            /\ Winners(t) \cup Losers(t) = Rivals(t)
            /\ EntryAtEnd(t)

\* C7 amended: exactly one of them returns True when the name was absent from
\* the parent as the calls started and none when it was present; every other
\* returns False, and the parent ends with the entry
OneCreatorWinsIfAbsent ==
    AllDone => \A t \in DOMAIN pc :
        Racing(t) =>
            /\ Cardinality(Winners(t)) = (IF TakenAtStart(t) THEN 0 ELSE 1)
            /\ Winners(t) \cup Losers(t) = Rivals(t)
            /\ EntryAtEnd(t)

\* three calls of both kinds raced for a name absent from /a: one won
OneCreatorWinsWitness ==
    /\ AllDone
    /\ \E t \in DOMAIN pc :
        /\ Racing(t) /\ ~TakenAtStart(t)
        /\ Rivals(t) = DOMAIN pc
        /\ ParentOf(spawned, loc[t].call) # root
        /\ {loc[u].call.op : u \in Rivals(t)} = CreateOps
        /\ Cardinality(Winners(t)) = 1
        /\ Cardinality(Losers(t)) = 2

-----------------------------------------------------------------------------
(* Two concurrent writes to one file (WriteSpec): the main thread creates
   files /a and /b and may write to them, then two threads each write to /a. *)

FilePaths == { <<"/", "a">>, <<"/", "b">> }
SetupPayloads == { <<1>> }
RacePayloads == { <<2, 3>>, <<4, 5>> }
RaceOffsets == { 0, 1, BLOCK_SIZE - 1 }
WriteCalls == { Call("write", <<"/", "a">>, d, o, 0) : d \in RacePayloads, o \in RaceOffsets }

WriteNext ==
    \/ ~Started /\ \E p \in FilePaths : CreateFile(p)
    \/ ~Started /\ \E p \in FilePaths, d \in SetupPayloads, o \in Offsets : Write(p, d, o)
    \/ \E c1, c2 \in WriteCalls : Spawn(<<c1, c2>>)
    \/ \E t \in 1..2 : Resolve(t)
    \/ \E t \in 1..2 : WriteSteps(t)

WriteSpec == Init /\ [][WriteNext]_vars

\* the writes c then d made one after the other from fs
Serial(fs, c, d) ==
    LET a == write(fs, c.path, c.data, c.offset)
        b == write(a.fs, d.path, d.data, d.offset)
    IN  [fs |-> b.fs, first |-> a.ret, second |-> b.ret]

SameFile(c, d) ==
    /\ c.op = "write" /\ d.op = "write"
    /\ IsFile(spawned, traverse(spawned, c.path))
    /\ traverse(spawned, c.path) = traverse(spawned, d.path)

\* C10: after two concurrent writes to one file, the file system (block
\* contents, block lists, sizes, free list) and the two return values are those
\* of the two writes made one after the other in one of the two orders
WritesSerialized ==
    AllDone => \A t, u \in DOMAIN pc :
        (t # u /\ SameFile(loc[t].call, loc[u].call)) =>
            LET tu == Serial(spawned, loc[t].call, loc[u].call)
                ut == Serial(spawned, loc[u].call, loc[t].call)
            IN  \/ FS = tu.fs /\ loc[t].ret = tu.first /\ loc[u].ret = tu.second
                \/ FS = ut.fs /\ loc[u].ret = ut.first /\ loc[t].ret = ut.second

\* two writes of different bytes to overlapping ranges both returned True, and
\* the two orders would have left different contents
WritesSerializedWitness ==
    /\ AllDone
    /\ \E t, u \in DOMAIN pc :
        /\ t # u /\ SameFile(loc[t].call, loc[u].call)
        /\ IsTrue(loc[t].ret) /\ IsTrue(loc[u].ret)
        /\ loc[t].call.data # loc[u].call.data
        /\ loc[u].call.offset = loc[t].call.offset + 1
        /\ Serial(spawned, loc[t].call, loc[u].call).fs # Serial(spawned, loc[u].call, loc[t].call).fs
        /\ Len(heap[traverse(spawned, loc[t].call.path)].blocks) >
             Len(spawned.heap[traverse(spawned, loc[t].call.path)].blocks)

-----------------------------------------------------------------------------
(* Concurrent write, read, create_file and delete (RaceSpec): the main thread
   creates files /a and /b and may write to /a, then three threads run: one
   writes to /a or reads /b, one deletes or creates /a, one writes to /b. *)

RaceCalls ==
    << { Call("write", <<"/", "a">>, <<4, 5>>, 0, 0), Call("read", <<"/", "b">>, <<>>, 0, 2) },
       { Call("delete", <<"/", "a">>, <<>>, 0, 0), Call("create_file", <<"/", "a">>, <<>>, 0, 0) },
       { Call("write", <<"/", "b">>, <<2, 3>>, 0, 0) } >>

RaceNext ==
    \/ ~Started /\ \E p \in FilePaths : CreateFile(p)
    \/ ~Started /\ \E d \in SetupPayloads : Write(<<"/", "a">>, d, 0)
    \/ \E c1 \in RaceCalls[1], c2 \in RaceCalls[2], c3 \in RaceCalls[3] : Spawn(<<c1, c2, c3>>)
    \/ \E t \in 1..3 : Resolve(t)
    \/ \E t \in 1..3 : CreateSteps(t)
    \/ \E t \in 1..3 : WriteSteps(t)
    \/ \E t \in 1..3 : ReadSteps(t)
    \/ \E t \in 1..3 : DeleteSteps(t)

RaceSpec == Init /\ [][RaceNext]_vars

\* the files a path resolves to
LinkedFiles == {a \in Closure(FS, {root}) : ~heap[a].is_dir}

\* the byte the last successful write to position pos of file f stored
ShadowByte(f, pos) ==
    IF \E b \in 1..255 : <<f, pos, b>> \in shadow
    THEN CHOOSE b \in 1..255 : <<f, pos, b>> \in shadow
    ELSE 0

\* C3: a block of a file that a path resolves to is neither in the free list
\* nor attached to another such file, and while no call holds the file's lock
\* its bytes are those that the writes addressed to it stored
BlocksNeverShared ==
    \A f \in LinkedFiles :
        /\ \A i \in DOMAIN heap[f].blocks :
            /\ heap[f].blocks[i] \notin {free_blocks[j] : j \in DOMAIN free_blocks}
            /\ \A g \in LinkedFiles \ {f} : \A k \in DOMAIN heap[g].blocks :
                   heap[g].blocks[k] # heap[f].blocks[i]
        /\ heap[f].lock = 0 =>
             \A pos \in 0..(heap[f].size - 1) : LoadByte(FS, f, pos) = ShadowByte(f, pos)

-----------------------------------------------------------------------------
(* A read concurrent with a write to one file (ReadWriteSpec): the main thread
   creates files /a and /b and may write to them, then one thread writes to /a
   while the other reads /a. *)

ReadCalls == { Call("read", <<"/", "a">>, <<>>, o, n) : o \in {0, 1}, n \in ReadSizes }

ReadWriteNext ==
    \/ ~Started /\ \E p \in FilePaths : CreateFile(p)
    \/ ~Started /\ \E p \in FilePaths, d \in SetupPayloads, o \in Offsets : Write(p, d, o)
    \/ \E w \in WriteCalls, r \in ReadCalls : Spawn(<<w, r>>)
    \/ \E t \in 1..2 : Resolve(t)
    \/ \E t \in 1..2 : WriteSteps(t)
    \/ \E t \in 1..2 : ReadSteps(t)

ReadWriteSpec == Init /\ [][ReadWriteNext]_vars

\* what the read r returns from fs
ReadIn(fs, r) == read(fs, r.path, r.size, r.offset).ret

\* the file system after the write w from fs
AfterWrite(fs, w) == write(fs, w.path, w.data, w.offset).fs

ReadsWrite(r, w) ==
    /\ r.op = "read" /\ w.op = "write"
    /\ IsFile(spawned, traverse(spawned, r.path))
    /\ traverse(spawned, r.path) = traverse(spawned, w.path)

\* C11: a read that ran concurrently with a write to the same file returned
\* the bytes (and so the length) that it returns from the file system either
\* as it was before that write or as it is after the whole write
ReadNeverTorn ==
    \A t, u \in DOMAIN pc :
        (t # u /\ ReadsWrite(loc[t].call, loc[u].call) /\ pc[t] = "done") =>
            \/ loc[t].ret = ReadIn(spawned, loc[t].call)
            \/ loc[t].ret = ReadIn(AfterWrite(spawned, loc[u].call), loc[t].call)

\* the read returned the bytes of the whole write, which replaced other bytes
\* and lengthened the file
ReadNeverTornWitness ==
    /\ AllDone
    /\ \E t, u \in DOMAIN pc :
        /\ t # u /\ ReadsWrite(loc[t].call, loc[u].call)
        /\ IsTrue(loc[u].ret)
        /\ loc[t].call.offset = loc[u].call.offset
        /\ loc[t].ret = Bytes(loc[u].call.data)
        /\ ReadIn(spawned, loc[t].call).kind = "bytes"
        /\ Len(ReadIn(spawned, loc[t].call).val) = 1

-----------------------------------------------------------------------------
(* Lock order and progress (LockSpec, FairLockSpec).  Here the calls that
   write takes to BlockManager.allocate and that delete takes to
   BlockManager.free are two steps each, as in BMSpec: the BlockManager's lock
   is acquired, then the body runs and the lock is released.  The main thread
   creates /a and may write to it; then three threads run one call each. *)

\* mutant: the with block of the BlockManager is left with the lock still held
ExitKept(owner) == owner

\* the with block of the BlockManager is left: the lock is released
Exit(owner) == 0

\* the loop test of write is false
WGrowEnd(t) ==
    /\ At(t, "w_grow")
    /\ ~(loc[t].end > Len(heap[loc[t].node].blocks) * BLOCK_SIZE)
    /\ Goto(t, "w_copy", [loc[t] EXCEPT !.i = 1])
    /\ UNCHANGED <<fsvars, shadow, orphans, others, cls, bm_lock, spawned, held>>

\* the loop test of write is true: allocate() is entered, with self.lock
WAllocEnter(t) ==
    /\ At(t, "w_grow")
    /\ loc[t].end > Len(heap[loc[t].node].blocks) * BLOCK_SIZE
    /\ LockFree(bm_lock)
    /\ bm_lock' = t
    /\ Goto(t, "w_alloc", loc[t])
    /\ UNCHANGED <<fsvars, shadow, orphans, others, cls, spawned, held>>

\* return self.free_blocks.pop() if self.free_blocks else None
WAllocBody(t) ==
    /\ At(t, "w_alloc")
    /\ LET a == allocate(free_blocks) IN
       /\ free_blocks' = a.free_blocks
       /\ Goto(t, "w_append", [loc[t] EXCEPT !.blk = a.blk])
    /\ bm_lock' = Exit(bm_lock)
    /\ UNCHANGED <<data_blocks, heap, inodes, next_inode_id, root, shadow, orphans, others, cls,
                   spawned, held>>

\* for blk in node.blocks: free(blk) is entered, with self.lock
DFreeEnter(t) ==
    /\ At(t, "d_free")
    /\ ~heap[loc[t].cur].is_dir
    /\ loc[t].i <= Len(heap[loc[t].cur].blocks)
    /\ LockFree(bm_lock)
    /\ bm_lock' = t
    /\ Goto(t, "d_freeing", loc[t])
    /\ UNCHANGED <<fsvars, shadow, orphans, others, cls, spawned, held>>

\* self.free_blocks.append(block_id)
DFreeBody(t) ==
    /\ At(t, "d_freeing")
    /\ free_blocks' = free(free_blocks, heap[loc[t].cur].blocks[loc[t].i])
    /\ bm_lock' = Exit(bm_lock)
    /\ Goto(t, "d_free", [loc[t] EXCEPT !.i = loc[t].i + 1])
    /\ UNCHANGED <<data_blocks, heap, inodes, next_inode_id, root, shadow, orphans, others, cls,
                   spawned, held>>

WriteLockSteps(t) ==
    WLock(t) \/ WGrowEnd(t) \/ WAllocEnter(t) \/ WAllocBody(t) \/ WAppend(t) \/ WNew(t)
    \/ WCopy(t) \/ WDone(t)
DeleteLockSteps(t) == DLock(t) \/ DPop(t) \/ DFreeEnter(t) \/ DFreeBody(t) \/ DUnreg(t)

\* one step of thread t's call
LockStep(t) ==
    Resolve(t) \/ CreateSteps(t) \/ WriteLockSteps(t) \/ ReadSteps(t) \/ DeleteLockSteps(t)

LockCalls ==
    << { Call("write", <<"/", "a">>, <<2, 3>>, BLOCK_SIZE - 1, 0), Call("read", <<"/", "a">>, <<>>, 0, 1) },
       { Call("delete", <<"/", "a">>, <<>>, 0, 0), Call("create_file", <<"/", "b">>, <<>>, 0, 0) },
       { Call("write", <<"/", "a">>, <<4, 5>>, 0, 0), Call("mkdir", <<"/", "b">>, <<>>, 0, 0) } >>

LockNext ==
    \/ ~Started /\ CreateFile(<<"/", "a">>)
    \/ ~Started /\ \E d \in SetupPayloads : Write(<<"/", "a">>, d, 0)
    \/ \E c1 \in LockCalls[1], c2 \in LockCalls[2], c3 \in LockCalls[3] : Spawn(<<c1, c2, c3>>)
    \/ \E t \in 1..3 : LockStep(t)

LockSpec == Init /\ [][LockNext]_vars

\* every thread that can take a step eventually takes one
FairLockSpec == LockSpec /\ \A t \in 1..3 : WF_vars(LockStep(t))

\* the inode locks thread t holds
LocksHeld(t) == {a \in DOMAIN heap : heap[a].lock = t}

AcquiringInodeLock(t) == pc[t] \in {"c_lock", "w_lock", "r_lock", "d_lock"}

\* the call of thread t has started and has not returned
Running(t) == Started /\ pc[t] \notin {"begin", "done"}

LockOrder ==
    Started => \A t \in DOMAIN pc :
        /\ Cardinality(LocksHeld(t)) <= 1
        /\ AcquiringInodeLock(t) => (LocksHeld(t) = {} /\ bm_lock # t)
        /\ pc[t] = "done" => (LocksHeld(t) = {} /\ bm_lock # t)

\* C12: no thread holds more than one inode lock, none holds the
\* BlockManager's lock (or an inode lock) while it acquires an inode lock, and
\* every call that has started returns
NoDeadlock ==
    /\ []LockOrder
    /\ \A t \in 1..3 : Running(t) ~> At(t, "done")

\* one thread is inside allocate() holding the file's lock, another waits for
\* that file's lock, and the third holds the root's lock
NoDeadlockWitness ==
    /\ Started
    /\ \E t, u, v \in DOMAIN pc :
        /\ pc[t] = "w_alloc" /\ bm_lock = t
        /\ pc[u] \in {"w_lock", "r_lock"} /\ heap[loc[u].node].lock = t
        /\ heap[root].lock = v

-----------------------------------------------------------------------------
(* Construction (ConstructSpec): FileSystem(total_blocks) called by the threads
   Constructors of a process in which no FileSystem exists yet.  The call runs
   FileSystem.__new__ and then __init__ on the object __new__ returned; the
   attributes __init__ assigns are the file-system variables.  __new__ runs
   under the class lock; __init__ takes no lock. *)

Constructors == {1, 2, 3}
BlockCounts == {1, TotalBlocks}

\* the locals of a constructor call
CtorLoc(total_blocks) ==
    [total_blocks |-> total_blocks, obj |-> None, iid |-> None, tmp |-> None,
     newroot |-> None, ret |-> None]

\* the process before any construction: _instance = None, no attribute set
ConstructInit ==
    /\ free_blocks = <<>>
    /\ data_blocks = EmptyEntries
    /\ heap = <<>>
    /\ inodes = EmptyEntries
    /\ next_inode_id = None
    /\ root = None
    /\ shadow = {}
    /\ orphans = {}
    /\ bm_lock = 0
    /\ spawned = FileSystemInit(TotalBlocks)
    /\ held = <<>>
    /\ cls = [instance |-> None, lock |-> 0, initialized |-> FALSE]
    /\ OthersInit
    /\ pc = [t \in Constructors |-> "new"]
    /\ loc \in [Constructors -> {CtorLoc(n) : n \in BlockCounts}]

\* __new__: with cls._lock
NewEnter(t) ==
    /\ pc[t] = "new"
    /\ LockFree(cls.lock)
    /\ cls' = [cls EXCEPT !.lock = t]
    /\ pc' = [pc EXCEPT ![t] = "new_body"]
    /\ UNCHANGED <<fsvars, shadow, orphans, others, bm_lock, spawned, loc, held>>

\* if not cls._instance: cls._instance = super().__new__(cls); return cls._instance
NewBody(t) ==
    /\ pc[t] = "new_body"
    /\ LET obj == IF cls.instance = None THEN 1 ELSE cls.instance IN
       /\ cls' = [cls EXCEPT !.instance = obj, !.lock = 0]
       /\ loc' = [loc EXCEPT ![t].obj = obj]
    /\ pc' = [pc EXCEPT ![t] = "init"]
    /\ UNCHANGED <<fsvars, shadow, orphans, others, bm_lock, spawned, held>>

\* __init__: if hasattr(self, "_initialized"): return
InitGuard(t) ==
    /\ pc[t] = "init"
    /\ IF cls.initialized
       THEN /\ pc' = [pc EXCEPT ![t] = "done"]
            /\ loc' = [loc EXCEPT ![t].ret = loc[t].obj]
       ELSE /\ pc' = [pc EXCEPT ![t] = "i_block_mgr"]
            /\ loc' = loc
    /\ UNCHANGED <<fsvars, shadow, orphans, others, cls, bm_lock, spawned, held>>

\* self.block_mgr = BlockManager(total_blocks)
InitBlockMgr(t) ==
    /\ pc[t] = "i_block_mgr"
    /\ free_blocks' = BlockManagerInit(loc[t].total_blocks)
    /\ bm_lock' = 0
    /\ pc' = [pc EXCEPT ![t] = "i_inodes"]
    /\ UNCHANGED <<data_blocks, heap, inodes, next_inode_id, root, shadow, orphans, others, cls,
                   spawned, loc, held>>

\* self.inodes = {}
InitInodes(t) ==
    /\ pc[t] = "i_inodes"
    /\ inodes' = EmptyEntries
    /\ pc' = [pc EXCEPT ![t] = "i_next"]
    /\ UNCHANGED <<free_blocks, data_blocks, heap, next_inode_id, root, shadow, orphans, others, cls,
                   bm_lock, spawned, loc, held>>

\* self.next_inode_id = 1
InitNextId(t) ==
    /\ pc[t] = "i_next"
    /\ next_inode_id' = 1
    /\ pc' = [pc EXCEPT ![t] = "i_data"]
    /\ UNCHANGED <<free_blocks, data_blocks, heap, inodes, root, shadow, orphans, others, cls,
                   bm_lock, spawned, loc, held>>

\* self.data_blocks = {}
InitDataBlocks(t) ==
    /\ pc[t] = "i_data"
    /\ data_blocks' = EmptyEntries
    /\ pc' = [pc EXCEPT ![t] = "i_alloc"]
    /\ UNCHANGED <<free_blocks, heap, inodes, next_inode_id, root, shadow, orphans, others, cls,
                   bm_lock, spawned, loc, held>>

\* _alloc_inode_id: iid = self.next_inode_id
InitAllocId(t) ==
    /\ pc[t] = "i_alloc"
    /\ loc' = [loc EXCEPT ![t].iid = next_inode_id, ![t].tmp = next_inode_id]
    /\ pc' = [pc EXCEPT ![t] = "i_inc"]
    /\ UNCHANGED <<fsvars, shadow, orphans, others, cls, bm_lock, spawned, held>>

\* _alloc_inode_id: self.next_inode_id += 1; root = Directory(iid)
InitIncId(t) ==
    /\ pc[t] = "i_inc"
    /\ next_inode_id' = loc[t].tmp + 1
    /\ heap' = Append(heap, Directory(loc[t].iid))
    /\ loc' = [loc EXCEPT ![t].newroot = Len(heap) + 1]
    /\ pc' = [pc EXCEPT ![t] = "i_register"]
    /\ UNCHANGED <<free_blocks, data_blocks, inodes, root, shadow, orphans, others, cls,
                   bm_lock, spawned, held>>

\* self.inodes[root.inode_id] = root
InitRegister(t) ==
    /\ pc[t] = "i_register"
    /\ inodes' = Put(inodes, loc[t].iid, loc[t].newroot)
    /\ pc' = [pc EXCEPT ![t] = "i_root"]
    /\ UNCHANGED <<free_blocks, data_blocks, heap, next_inode_id, root, shadow, orphans, others, cls,
                   bm_lock, spawned, loc, held>>

\* self.root = root
InitRoot(t) ==
    /\ pc[t] = "i_root"
    /\ root' = loc[t].newroot
    /\ pc' = [pc EXCEPT ![t] = "i_flag"]
    /\ UNCHANGED <<free_blocks, data_blocks, heap, inodes, next_inode_id, shadow, orphans, others, cls,
                   bm_lock, spawned, loc, held>>

\* self._initialized = True; the constructor call returns the object
InitFlag(t) ==
    /\ pc[t] = "i_flag"
    /\ cls' = [cls EXCEPT !.initialized = TRUE]
    /\ pc' = [pc EXCEPT ![t] = "done"]
    /\ loc' = [loc EXCEPT ![t].ret = loc[t].obj]
    /\ UNCHANGED <<fsvars, shadow, orphans, others, bm_lock, spawned, held>>

ConstructNext ==
    \E t \in Constructors :
        \/ NewEnter(t) \/ NewBody(t) \/ InitGuard(t)
        \/ InitBlockMgr(t) \/ InitInodes(t) \/ InitNextId(t) \/ InitDataBlocks(t)
        \/ InitAllocId(t) \/ InitIncId(t) \/ InitRegister(t) \/ InitRoot(t) \/ InitFlag(t)

ConstructSpec == ConstructInit /\ [][ConstructNext]_vars

SomeReturned == \E t \in Constructors : pc[t] = "done"

SameObject ==
    \A t, u \in Constructors : (pc[t] = "done" /\ pc[u] = "done") => loc[t].ret = loc[u].ret

\* C13: every FileSystem(...) call returns the same object, and once a call
\* has returned it the block manager, the registry, the inode-id counter, the
\* data blocks and the root are not assigned again by another construction
ConstructedOnce ==
    /\ []SameObject
    /\ [][SomeReturned => UNCHANGED fsvars]_vars

-----------------------------------------------------------------------------
(* Concurrent creations under different parents (IdSpec): the main thread may
   create the directory /a, then two threads each create /b or /a/b. *)

IdPaths == { <<"/", "b">>, <<"/", "a", "/", "b">> }
IdCalls == { Call(op, p, <<>>, 0, 0) : op \in CreateOps, p \in IdPaths }

IdNext ==
    \/ ~Started /\ Mkdir(<<"/", "a">>)
    \/ \E c1, c2 \in IdCalls : Spawn(<<c1, c2>>)
    \/ \E t \in 1..2 : Resolve(t)
    \/ \E t \in 1..2 : CreateSteps(t)

IdSpec == Init /\ [][IdNext]_vars

\* the INode objects constructed and not reclaimed
Objects == {a \in DOMAIN heap : heap[a].inode_id # None}

\* C14: no two inodes have the same inode_id, and every inode a path resolves
\* to is the one the registry holds under its id
UniqueInodeIds ==
    /\ \A a, b \in Objects : a # b => heap[a].inode_id # heap[b].inode_id
    /\ \A a \in Closure(FS, {root}) :
        heap[a].inode_id \in DOMAIN inodes /\ inodes[heap[a].inode_id] = a

\* the File objects that a delete has unregistered
DeletedFiles == {a \in Objects : ~heap[a].is_dir /\ a \notin Range(inodes)}

\* C30: while a delete frees the blocks of a file and unregisters it, no
\* write or read holds that file's lock, and once all calls have returned
\* every block attached to a deleted file is in the free list
DeleteExcludesWriters ==
    Started =>
        /\ \A t \in DOMAIN pc :
              (pc[t] = "d_free" /\ ~heap[loc[t].cur].is_dir) => heap[loc[t].cur].lock \in {0, t}
        /\ AllDone =>
              \A f \in DeletedFiles : \A i \in DOMAIN heap[f].blocks :
                  heap[f].blocks[i] \in {free_blocks[j] : j \in DOMAIN free_blocks}

-----------------------------------------------------------------------------
(* Properties of sequential executions (Spec) *)

RegisteredFiles == {a \in Range(inodes) : ~heap[a].is_dir}
BlockIds == 0..(TotalBlocks - 1)
Elems(seq) == {seq[i] : i \in DOMAIN seq}
NoRepeat(seq) == NoRepeatSeq(seq)

\* C1: between operations the block ids 0..total_blocks-1 are partitioned: the
\* free list holds no id twice, no id is both free and in a registered file's
\* block list, no id is in two registered files' lists or twice in one, and
\* the free ids together with the ids of registered files are all the ids.
BlockPartition ==
    /\ NoRepeat(free_blocks)
    /\ \A f \in RegisteredFiles : Elems(heap[f].blocks) \cap Elems(free_blocks) = {}
    /\ \A f \in RegisteredFiles : NoRepeat(heap[f].blocks)
    /\ \A f, g \in RegisteredFiles :
          f # g => Elems(heap[f].blocks) \cap Elems(heap[g].blocks) = {}
    /\ Elems(free_blocks) \cup UNION {Elems(heap[f].blocks) : f \in RegisteredFiles} = BlockIds

\* a registered file holds a block while the free list holds an id that a
\* delete returned (the list is no longer a prefix of range(total_blocks))
BlockPartitionWitness ==
    /\ \E f \in RegisteredFiles : heap[f].blocks # <<>>
    /\ \E i \in DOMAIN free_blocks : free_blocks[i] # i - 1

Disjoint(o1, n1, o2, n2) == o1 + n1 <= o2 \/ o2 + n2 <= o1

\* C4: for every payload d and offset o, when write(path, d, o) on a file
\* returns True, read(path, len(d), o) returns exactly d; and after a further
\* successful write to a disjoint range read(path, len(d), o) still returns d
\* (and the two ranges, when adjacent, read back as the concatenation).
WriteReadRoundTrip ==
    \A p \in Paths, d \in Payloads, o \in Offsets :
        LET w == write(FS, p, d, o) IN
        IsTrue(w.ret) =>
            /\ read(w.fs, p, Len(d), o).ret = Bytes(d)
            /\ \A d2 \in Payloads, o2 \in Offsets \cup {o + Len(d)} :
                  LET w2 == write(w.fs, p, d2, o2) IN
                  (Disjoint(o, Len(d), o2, Len(d2)) /\ IsTrue(w2.ret)) =>
                      /\ read(w2.fs, p, Len(d), o).ret = Bytes(d)
                      /\ o2 = o + Len(d) =>
                            read(w2.fs, p, Len(d) + Len(d2), o).ret = Bytes(d \o d2)

\* a file that two writes to disjoint ranges have filled reads both back
WriteReadRoundTripWitness ==
    \E p \in Paths :
        /\ read(FS, p, 1, 0).ret = Bytes(<<1>>)
        /\ read(FS, p, 3, BLOCK_SIZE - 1).ret = Bytes(<<2, 3>>)

SizeOf(fs, p) == fs.heap[traverse(fs, p)].size
BlocksOf(fs, p) == fs.heap[traverse(fs, p)].blocks

\* C5 as stated: after every write(path, d, o) on a file, the file's size
\* equals max(old_size, o + len(d)).
SizeIsMaxAfterEveryWrite ==
    \A p \in Paths, d \in Payloads, o \in Offsets :
        IsFile(FS, traverse(FS, p)) =>
            SizeOf(write(FS, p, d, o).fs, p) = Max(SizeOf(FS, p), o + Len(d))

\* C5 amended: after a write that returns True the size equals
\* max(old_size, o + len(d)); after a write that returns False the size is
\* the old size; so no write decreases the size.
SizeMonotone ==
    \A p \in Paths, d \in Payloads, o \in Offsets :
        IsFile(FS, traverse(FS, p)) =>
            LET w == write(FS, p, d, o) IN
            /\ IsTrue(w.ret) => SizeOf(w.fs, p) = Max(SizeOf(FS, p), o + Len(d))
            /\ IsFalse(w.ret) => SizeOf(w.fs, p) = SizeOf(FS, p)
            /\ SizeOf(w.fs, p) >= SizeOf(FS, p)

\* a file that grew to two blocks and then took a write below its size
SizeMonotoneWitness ==
    \E f \in RegisteredFiles :
        /\ heap[f].size = BLOCK_SIZE + 1
        /\ <<f, 0, 1>> \in shadow
        /\ <<f, BLOCK_SIZE, 3>> \in shadow

IsPrefix(s, t) == Len(s) <= Len(t) /\ SubSeq(t, 1, Len(s)) = s

\* C6: when the block manager runs dry while write grows a file, write
\* returns False, the size is unchanged, and the blocks allocated before the
\* exhaustion are appended to the file's block list and are not free.
ExhaustedWriteKeepsBlocks ==
    \A p \in Paths, d \in Payloads, o \in Offsets :
        IsFile(FS, traverse(FS, p)) =>
            LET w == write(FS, p, d, o)
                needed == o + Len(d) > (Len(BlocksOf(FS, p)) + Len(free_blocks)) * BLOCK_SIZE
            IN  /\ needed <=> IsFalse(w.ret)
                /\ IsFalse(w.ret) =>
                      /\ SizeOf(w.fs, p) = SizeOf(FS, p)
                      /\ IsPrefix(BlocksOf(FS, p), BlocksOf(w.fs, p))
                      /\ Elems(BlocksOf(w.fs, p)) = Elems(BlocksOf(FS, p)) \cup Elems(free_blocks)
                      /\ Len(BlocksOf(w.fs, p)) = Len(BlocksOf(FS, p)) + Len(free_blocks)
                      /\ w.fs.free_blocks = <<>>

\* a file left with a block and size 0: a write took the last free block and
\* then failed
ExhaustedWriteWitness ==
    /\ free_blocks = <<>>
    /\ \E f \in RegisteredFiles : heap[f].size = 0 /\ heap[f].blocks # <<>>

\* the number of chains of directory entries that lead from root to object a
Links(d, a) == Cardinality({n \in DOMAIN heap[d].entries : heap[d].entries[n] = a})

RECURSIVE NumChains(_)
RECURSIVE ChainsVia(_, _)
ChainsVia(ds, a) ==
    IF ds = {} THEN 0
    ELSE LET d == CHOOSE x \in ds : TRUE IN
         NumChains(d) * Links(d, a) + ChainsVia(ds \ {d}, a)

NumChains(a) ==
    IF a = root THEN 1
    ELSE ChainsVia({d \in DOMAIN heap : Links(d, a) > 0}, a)

\* C8 as stated: every inode in the registry is reachable from root through
\* exactly one chain of directory entries.
EveryRegisteredInodeReachableOnce ==
    \A a \in Range(inodes) : NumChains(a) = 1

\* C8 amended: every inode reachable from root is in the registry and is
\* reachable through exactly one chain; no inode is reachable by two chains;
\* a registered inode is unreachable only if it was beneath a directory that
\* delete removed.
TreeInvariant ==
    /\ \A a \in Closure(FS, {root}) : a \in Range(inodes) /\ NumChains(a) = 1
    /\ \A a \in Range(inodes) : NumChains(a) <= 1
    /\ \A a \in Range(inodes) : NumChains(a) = 0 => a \in orphans

\* a delete of a directory has left an inode in the registry that no path reaches
TreeInvariantWitness ==
    \E a \in Range(inodes) : NumChains(a) = 0 /\ a \in orphans

\* C9: for every path, payload and offset, each of mkdir, create_file,
\* write, read, ls and delete returns a boolean or an optional payload and
\* raises nothing.
NeverRaises ==
    \A p \in Paths :
        /\ mkdir(FS, p).ret.kind # "raise"
        /\ create_file(FS, p).ret.kind # "raise"
        /\ delete(FS, p).ret.kind # "raise"
        /\ ls(FS, p).ret.kind # "raise"
        /\ \A d \in Payloads, o \in Offsets : write(FS, p, d, o).ret.kind # "raise"
        /\ \A n \in ReadSizes, o \in Offsets : read(FS, p, n, o).ret.kind # "raise"

ReadOffsets == Offsets \cup {1, BLOCK_SIZE, BLOCK_SIZE + 1}

\* C15: for every requested length n and offset o (both non-negative),
\* read(path, n, o) on a file returns empty bytes when o >= size and otherwise
\* min(n, size - o) bytes, the i-th of which is the byte that the writes to the
\* file left at position o + i - 1 (zero where nothing was written)
ReadReturnsStoredBytes ==
    \A p \in Paths, n \in ReadSizes, o \in ReadOffsets :
        IsFile(FS, traverse(FS, p)) =>
            LET r == read(FS, p, n, o).ret
                f == traverse(FS, p)
            IN  /\ r.kind = "bytes"
                /\ o >= heap[f].size => r.val = <<>>
                /\ o < heap[f].size =>
                      /\ Len(r.val) = Min(n, heap[f].size - o)
                      /\ \A i \in 1..Len(r.val) : r.val[i] = ShadowByte(f, o + i - 1)

\* a read of 3 bytes across the block boundary of a file of BLOCK_SIZE + 1
\* bytes is clamped to 2 bytes, and a read at the size returns nothing
ReadReturnsStoredBytesWitness ==
    \E p \in Paths :
        /\ IsFile(FS, traverse(FS, p))
        /\ SizeOf(FS, p) = BLOCK_SIZE + 1
        /\ read(FS, p, 3, BLOCK_SIZE - 1).ret = Bytes(<<2, 3>>)
        /\ read(FS, p, 3, 0).ret = Bytes(<<0, 0, 0>>)
        /\ read(FS, p, 1, BLOCK_SIZE + 1).ret = Bytes(<<>>)

\* C16: read and ls, on any path and whether they succeed or fail, leave the
\* free list, the data blocks, every inode (block list, size, entries), the
\* registry and the inode-id counter as they were
ReadLsChangeNothing ==
    \A p \in Paths :
        /\ ls(FS, p).fs = FS
        /\ \A n \in ReadSizes, o \in ReadOffsets : read(FS, p, n, o).fs = FS

\* a read beyond the blocks of a file succeeds while blocks are free, and ls
\* lists a non-empty directory
ReadLsChangeNothingWitness ==
    /\ free_blocks # <<>>
    /\ \E p \in Paths :
        /\ IsFile(FS, traverse(FS, p))
        /\ Len(BlocksOf(FS, p)) = 1
        /\ read(FS, p, 3, BLOCK_SIZE + 1).ret = Bytes(<<>>)
        /\ read(FS, p, 3, 0).ret.kind = "bytes"
        /\ read(FS, p, 3, 0).ret.val # <<>>
    /\ \E q \in Paths : ls(FS, q).ret.kind = "list" /\ ls(FS, q).ret.val # {}
    /\ \E q \in Paths : ls(FS, q).ret = RetNone

\* path with one more separator in front, at the end, or next to a separator
\* it already holds
MoreSeparators(path) ==
    {<<Sep>> \o path, path \o <<Sep>>}
    \cup {SubSeq(path, 1, i) \o <<Sep>> \o SubSeq(path, i + 1, Len(path)) :
            i \in {j \in 1..Len(path) : path[j] = Sep}}

\* C17: a path with a leading, a trailing or a duplicate separator added, once
\* or twice, resolves to the inode (or to the failure) the path resolves to,
\* and the empty path and "/" resolve to root
EmptySegmentsIgnored ==
    /\ traverse(FS, <<>>) = root
    /\ traverse(FS, <<Sep>>) = root
    /\ \A p \in Paths : \A q \in MoreSeparators(p) :
          /\ traverse(FS, q) = traverse(FS, p)
          /\ \A r \in MoreSeparators(q) : traverse(FS, r) = traverse(FS, p)

\* /a/b exists beneath the directory /a and is reached with doubled separators
\* and without the leading one
EmptySegmentsIgnoredWitness ==
    /\ traverse(FS, <<"/", "a", "/", "b">>) \notin {None, root}
    /\ traverse(FS, <<"/", "/", "a", "/", "/", "b", "/">>) = traverse(FS, <<"/", "a", "/", "b">>)
    /\ traverse(FS, <<"a", "/", "b">>) = traverse(FS, <<"/", "a", "/", "b">>)

\* the inode that the segments ps lead to: the end of a chain of directory
\* entries from root whose every link starts at a directory; None when a
\* segment is missing or a file is passed through
Target(ps) ==
    LET chains == {c \in [1..(Len(ps) + 1) -> DOMAIN heap] :
                      /\ c[1] = root
                      /\ \A i \in 1..Len(ps) :
                            /\ heap[c[i]].is_dir
                            /\ ps[i] \in DOMAIN heap[c[i]].entries
                            /\ heap[c[i]].entries[ps[i]] = c[i + 1]}
    IN  IF chains = {} THEN None ELSE (CHOOSE c \in chains : TRUE)[Len(ps) + 1]

TargetIsFile(path) == Target(parts(path)) # None /\ ~heap[Target(parts(path))].is_dir
TargetIsDir(path) == Target(parts(path)) # None /\ heap[Target(parts(path))].is_dir

\* C18: when the path has a missing segment, passes through a file, or leads
\* to a directory, write returns False and read returns None; when it has a
\* missing segment, passes through a file, or leads to a file, ls returns
\* None; and the call leaves the file system as it was
WrongTargetFailsQuietly ==
    \A p \in Paths :
        /\ ~TargetIsFile(p) =>
              /\ \A d \in Payloads, o \in Offsets :
                    write(FS, p, d, o) = [fs |-> FS, ret |-> Bool(FALSE)]
              /\ \A n \in ReadSizes, o \in Offsets :
                    read(FS, p, n, o) = [fs |-> FS, ret |-> RetNone]
        /\ ~TargetIsDir(p) => ls(FS, p) = [fs |-> FS, ret |-> RetNone]

\* /a is a file and /b a directory while blocks are free: /b is the wrong kind
\* for write, /a for ls, /a/b passes through a file, /b/a is missing
WrongTargetFailsQuietlyWitness ==
    /\ free_blocks # <<>>
    /\ TargetIsFile(<<"/", "a">>)
    /\ TargetIsDir(<<"/", "b">>)
    /\ IsFalse(write(FS, <<"/", "b">>, <<1>>, 0).ret)
    /\ read(FS, <<"/", "a", "/", "b">>, 1, 0).ret = RetNone
    /\ ls(FS, <<"/", "a">>).ret = RetNone

SplitPaths == {p \in Paths : Len(rsplit(p)) = 2}

\* C19: for every path with a separator, mkdir and create_file return False
\* and change nothing when the parent is missing or is no directory or when
\* the name is already an entry of the parent; otherwise they return True, one
\* new inode of the requested kind is in the registry under a new id and is
\* the parent's entry of that name, the counter has advanced by one, and
\* nothing else has changed
CreateFailsOrAddsOne ==
    \A p \in SplitPaths, is_dir \in BOOLEAN :
        LET par == Target(parts(OrRoot(rsplit(p)[1])))
            name == rsplit(p)[2]
            r == create(FS, p, is_dir)
            fails == \/ par = None
                     \/ ~heap[par].is_dir
                     \/ name \in DOMAIN heap[par].entries
            addr == Len(heap) + 1
        IN  /\ fails => r = [fs |-> FS, ret |-> Bool(FALSE)]
            /\ ~fails =>
                  /\ IsTrue(r.ret)
                  /\ next_inode_id \notin DOMAIN inodes
                  /\ r.fs.inodes = Put(inodes, next_inode_id, addr)
                  /\ r.fs.next_inode_id = next_inode_id + 1
                  /\ Len(r.fs.heap) = addr
                  /\ r.fs.heap[addr] = INode(next_inode_id, is_dir)
                  /\ r.fs.heap[par].entries = Put(heap[par].entries, name, addr)
                  /\ \A a \in DOMAIN heap :
                        r.fs.heap[a] = [heap[a] EXCEPT !.entries = r.fs.heap[a].entries]
                  /\ \A a \in DOMAIN heap \ {par} : r.fs.heap[a] = heap[a]
                  /\ r.fs.free_blocks = free_blocks
                  /\ r.fs.data_blocks = data_blocks
                  /\ r.fs.root = root

\* /a is a file: creating /a again fails on the name, creating /a/b fails on
\* the parent, creating /b/a fails on the missing parent, creating /b succeeds
CreateFailsOrAddsOneWitness ==
    /\ TargetIsFile(<<"/", "a">>)
    /\ IsFalse(mkdir(FS, <<"/", "a">>).ret)
    /\ IsFalse(create_file(FS, <<"/", "a", "/", "b">>).ret)
    /\ IsTrue(mkdir(FS, <<"/", "b">>).ret)
    /\ Cardinality(DOMAIN mkdir(FS, <<"/", "b">>).fs.inodes) = 3

\* what the claim says of delete(p) when p leads to the file f
DeletedFile(p, f) ==
    LET r == delete(FS, p) IN
    /\ IsTrue(r.ret)
    /\ Target(parts(p)) = f /\ traverse(r.fs, p) = None
    /\ f \notin Range(r.fs.inodes)
    /\ r.fs.free_blocks = free_blocks \o heap[f].blocks
    /\ read(r.fs, p, 1, 0).ret = RetNone
    /\ IsFalse(write(r.fs, p, <<1>>, 0).ret)
    /\ IsFalse(delete(r.fs, p).ret)

\* C20: for every path that leads to a file, delete(path) returns True, the
\* path leads nowhere afterwards, the inode has left the registry, the file's
\* blocks are appended to the free list once each, and then read returns
\* None, write returns False and a second delete returns False
DeleteRemovesFile ==
    \A p \in Paths : TargetIsFile(p) => DeletedFile(p, Target(parts(p)))

\* what the claim says of delete(p) when p leads to the directory d
DeletedDirectory(p, d) ==
    LET r == delete(FS, p)
        par == CHOOSE a \in DOMAIN heap : Links(a, d) > 0
    IN  /\ IsTrue(r.ret)
        /\ r.fs.free_blocks = free_blocks
        /\ r.fs.data_blocks = data_blocks
        /\ r.fs.inodes = Del(inodes, heap[d].inode_id)
        /\ \A a \in Closure(FS, {d}) \ {d} : a \in Range(r.fs.inodes)
        /\ Range(r.fs.heap[par].entries) = Range(heap[par].entries) \ {d}
        /\ \A a \in DOMAIN heap \ {par} : r.fs.heap[a] = heap[a]
        /\ r.fs.next_inode_id = next_inode_id /\ r.fs.root = root

\* C21: for every path that leads to a directory other than the root,
\* delete(path) returns True and removes the directory's entry from its parent
\* and its record from the registry; the free list, the data blocks and every
\* other inode, the descendants included, stay as they were and the
\* descendants stay in the registry
DeleteDirectoryKeepsChildren ==
    \A p \in Paths :
        (TargetIsDir(p) /\ Target(parts(p)) # root) => DeletedDirectory(p, Target(parts(p)))

\* C22: in every state that mkdir, create_file, write and delete (called with
\* any path, "/" and paths ending in '/' included) lead to, FileSystem.root is
\* the object construction made, it is a directory, the registry holds it
\* under its id, and "/" resolves to it
RootStays ==
    /\ root = FileSystemInit(TotalBlocks).root
    /\ heap[root].is_dir
    /\ heap[root].inode_id = FileSystemInit(TotalBlocks).heap[root].inode_id
    /\ heap[root].inode_id \in DOMAIN inodes
    /\ inodes[heap[root].inode_id] = root
    /\ traverse(FS, <<Sep>>) = root

\* mkdir("/") has entered a directory named "" under root and an inode has
\* been deleted; delete("/") now returns True
RootStaysWitness ==
    /\ <<>> \in DOMAIN heap[root].entries
    /\ IsTrue(delete(FS, <<Sep>>).ret)
    /\ \E a \in DOMAIN heap : heap[a] = Reclaimed

\* the names ls returns for the directory object a of fs
Listed(fs, a) == {n \in DOMAIN fs.heap[a].entries : TRUE}

Dirs(fs) == {a \in Closure(fs, {fs.root}) : fs.heap[a].is_dir}

\* ls(path) is the listing of the directory the path leads to
LsListsTarget ==
    \A q \in Paths : TargetIsDir(q) => ls(FS, q).ret = Names(Listed(FS, Target(parts(q))))

\* the listing of every directory after the call that led from FS to r: the
\* listing before, with name added to (removed from) the directory par when
\* the call returned True
ListingsFollow(r, par, name, added) ==
    \A a \in Dirs(FS) \cap Dirs(r.fs) :
        Listed(r.fs, a) =
            IF IsTrue(r.ret) /\ a = par
            THEN (IF added THEN Listed(FS, a) \cup {name} ELSE Listed(FS, a) \ {name})
            ELSE Listed(FS, a)

\* C23: ls(path) on a directory returns the set of names created directly
\* under it by mkdir/create_file calls that returned True and not deleted
\* since: a directory is created with an empty listing, a mkdir/create_file
\* returning True adds its name to the listing of its parent and a delete
\* returning True removes its name from it, and no other call (a failing
\* one, a write) changes any listing
LsListsCreatedNames ==
    /\ LsListsTarget
    /\ next_inode_id = FileSystemInit(TotalBlocks).next_inode_id => Listed(FS, root) = {}
    /\ \A p \in SplitPaths :
          LET par == Target(parts(OrRoot(rsplit(p)[1])))
              name == rsplit(p)[2]
              d == delete(FS, p)
          IN  /\ \A is_dir \in BOOLEAN :
                    LET c == create(FS, p, is_dir) IN
                    /\ ListingsFollow(c, par, name, TRUE)
                    /\ is_dir /\ IsTrue(c.ret) => Listed(c.fs, Len(c.fs.heap)) = {}
                    /\ IsTrue(c.ret) => name \notin Listed(FS, par)
              /\ ListingsFollow(d, par, name, FALSE)
              /\ IsTrue(d.ret) => name \in Listed(FS, par)
    /\ \A p \in Paths, x \in Payloads, o \in Offsets :
          \A a \in Dirs(FS) : Listed(write(FS, p, x, o).fs, a) = Listed(FS, a)

\* one name was created under root and deleted, "a" was created and stays
LsListsCreatedNamesWitness ==
    /\ \E a \in DOMAIN heap : heap[a] = Reclaimed
    /\ ls(FS, <<Sep>>).ret = Names({<<"a">>})
    /\ next_inode_id = FileSystemInit(TotalBlocks).next_inode_id + 2

-----------------------------------------------------------------------------
(* The vending machine: restock, purchase and collect_cash, one call at a time *)

\* the largest quantity a product is restocked to
MaxStock == 2

\* purchases are disabled once the register would hold more coins than this
MaxCoins == 6

ProductIds == {"P1", "P2"}

Deliveries == {Product("P1", 125, 1), Product("P2", 30, 1)}

Inserted ==
    { <<100, 100>>, <<100, 25>>, <<10, 10, 10>>, <<25, 10>>, <<100>> }

Amounts == {0, 5, 30, 75}

RECURSIVE CountAcc(_, _)
CountAcc(coins, i) ==
    IF i > Len(Descending) THEN 0
    ELSE coins[Descending[i]] + CountAcc(coins, i + 1)

Count(coins) == CountAcc(coins, 1)

VendRestock(product) ==
    LET r == restock(vending.inventory, product) IN
    /\ r[product.product_id].quantity <= MaxStock
    /\ vending' = [vending EXCEPT !.inventory = r]
    /\ UNCHANGED <<unixfs, pc, loc, atm, reminders, lot, signal, coffee, session>>

VendPurchase(product_id, inserted) ==
    LET r == purchase(vending, product_id, inserted) IN
    /\ Count(r.vm.cash_register) <= MaxCoins
    /\ vending' = r.vm
    /\ UNCHANGED <<unixfs, pc, loc, atm, reminders, lot, signal, coffee, session>>

VendCollectCash ==
    /\ vending' = [vending EXCEPT !.cash_register = collect_all(@).coins]
    /\ UNCHANGED <<unixfs, pc, loc, atm, reminders, lot, signal, coffee, session>>

VendNext ==
    \/ \E d \in Deliveries : VendRestock(d)
    \/ \E p \in ProductIds, i \in Inserted : VendPurchase(p, i)
    \/ VendCollectCash

VendSpec == Init /\ [][VendNext]_vars

Quantities(products) == [p \in DOMAIN products |-> products[p].quantity]

\* C24: a purchase that returns None as the product returns the inserted coins
\* and leaves the register's coin counts and the inventory's quantities as they
\* were before the call
FailedPurchaseRolledBack ==
    \A p \in ProductIds, i \in Inserted :
        LET r == purchase(vending, p, i) IN
        r.ret[1].kind = "none" =>
            /\ r.ret[2] = i
            /\ r.vm.cash_register = vending.cash_register
            /\ Quantities(r.vm.inventory) = Quantities(vending.inventory)

\* a choice of at most coins[c] coins of each denomination from Descending[i]
\* on has total value amount
RECURSIVE Makeable(_, _, _)
Makeable(coins, amount, i) ==
    IF amount = 0 THEN TRUE
    ELSE IF i > Len(Descending) THEN FALSE
    ELSE \E k \in 0..coins[Descending[i]] :
            /\ k * Descending[i] <= amount
            /\ Makeable(coins, amount - k * Descending[i], i + 1)

\* C25: get_change returns coins taken from the register whose values sum to
\* the amount, or None with the counts unchanged, and None only when no choice
\* of the register's coins sums to the amount
ChangeExactOrImpossible ==
    \A amount \in Amounts :
        LET r == get_change(vending.cash_register, amount) IN
        IF r.ret.kind = "none"
        THEN /\ r.coins = vending.cash_register
             /\ ~Makeable(vending.cash_register, amount, 1)
        ELSE /\ Total(r.ret.val) = amount
             /\ add_coins(r.coins, r.ret.val) = vending.cash_register

-----------------------------------------------------------------------------
(* The ATM: one session at a time *)

\* deposits are disabled once the dispenser would hold more bills than this
MaxBills == 5

Cards == {"card123", "card456", "card789"}

Pins == {"9999", "1234"}

WithdrawAmounts == {0, 20, 30, 60}

DepositBills == { [d \in {20, 10} |-> 1], [d \in {50} |-> 1] }

RECURSIVE NumBills(_)
NumBills(bills) ==
    IF DOMAIN bills = {} THEN 0
    ELSE LET d == CHOOSE k \in DOMAIN bills : TRUE IN
         bills[d] + NumBills(Del(bills, d))

\* pin is the PIN of the account of card_number
CorrectPin(card_number, pin) ==
    card_number \in DOMAIN atm.accounts /\ atm.accounts[card_number].pin = pin

InsertCard(card_number) ==
    /\ atm' = insert_card(atm, card_number)
    /\ session' = [inserted |-> card_number, open |-> FALSE]
    /\ UNCHANGED <<unixfs, pc, loc, vending, reminders, lot, signal, coffee>>

EnterPin(pin) ==
    /\ atm' = enter_pin(atm, pin).atm
    /\ session' = [session EXCEPT !.open = CorrectPin(session.inserted, pin)]
    /\ UNCHANGED <<unixfs, pc, loc, vending, reminders, lot, signal, coffee>>

ATMWithdraw(amount) ==
    /\ atm' = ATM_withdraw(atm, amount).atm
    /\ UNCHANGED session
    /\ UNCHANGED <<unixfs, pc, loc, vending, reminders, lot, signal, coffee>>

ATMDeposit(deposit_bills) ==
    LET r == ATM_deposit(atm, deposit_bills) IN
    /\ NumBills(r.atm.bills) <= MaxBills
    /\ atm' = r.atm
    /\ UNCHANGED session
    /\ UNCHANGED <<unixfs, pc, loc, vending, reminders, lot, signal, coffee>>

CheckBalance ==
    /\ atm' = check_balance(atm).atm
    /\ UNCHANGED session
    /\ UNCHANGED <<unixfs, pc, loc, vending, reminders, lot, signal, coffee>>

EjectCard ==
    /\ atm' = eject_card(atm)
    /\ session' = [inserted |-> NoCard, open |-> FALSE]
    /\ UNCHANGED <<unixfs, pc, loc, vending, reminders, lot, signal, coffee>>

ATMNext ==
    \/ \E c \in Cards : InsertCard(c)
    \/ \E p \in Pins : EnterPin(p)
    \/ \E n \in WithdrawAmounts : ATMWithdraw(n)
    \/ \E b \in DepositBills : ATMDeposit(b)
    \/ CheckBalance
    \/ EjectCard

ATMSpec == Init /\ [][ATMNext]_vars

Balance(a) == a.accounts[a.current_card].balance

\* the accounts other than the session's are as in b
OthersKept(a, b) ==
    \A c \in DOMAIN a.accounts :
        c # a.current_card => a.accounts[c] = b.accounts[c]

\* C26: in an authenticated session withdraw(amount), amount > 0, returns True
\* with the balance and the dispenser's cash each lowered by amount, or False
\* with the balance and every bill count as before the call
WithdrawAllOrNothing ==
    atm.authenticated =>
        \A amount \in WithdrawAmounts \ {0} :
            LET r == ATM_withdraw(atm, amount) IN
            /\ OthersKept(r.atm, atm)
            /\ r.atm.current_card = atm.current_card
            /\ IF r.ret
               THEN /\ Balance(r.atm) = Balance(atm) - amount
                    /\ Cash(r.atm.bills) = Cash(atm.bills) - amount
               ELSE /\ Balance(r.atm) = Balance(atm)
                    /\ r.atm.bills = atm.bills

\* an authenticated session where one amount is paid out and another, covered
\* by the balance, is refused by the dispenser and credited back
WithdrawAllOrNothingWitness ==
    /\ atm.authenticated
    /\ \E amount \in WithdrawAmounts \ {0} : ATM_withdraw(atm, amount).ret
    /\ \E amount \in WithdrawAmounts \ {0} :
          /\ Balance(atm) >= amount
          /\ dispense(atm.bills, amount).ret.kind = "none"
          /\ ~ATM_withdraw(atm, amount).ret

-----------------------------------------------------------------------------
(* Reminders: threads calling TaskManager.set_reminder, and the timer threads *)

\* set_reminder is disabled once this many timers were created
MaxTimers == 3

Setters == {1, 2}

TaskIds == Tasks \cup {"t9"}

RemStart ==
    /\ pc = <<>>
    /\ pc' = [t \in Setters |-> "idle"]
    /\ loc' = [t \in Setters |-> [task |-> "", old |-> None, timer |-> None]]
    /\ UNCHANGED <<unixfs, others>>

RemGoto(t, label) == pc' = [pc EXCEPT ![t] = label]

RemAt(t, label) == pc # <<>> /\ pc[t] = label

RemFrame == UNCHANGED <<unixfs, vending, atm, lot, signal, coffee, session>>

\* set_reminder: with self.lock, and the test of task_id
SetReminderEnter(t, task_id) ==
    /\ RemAt(t, "idle")
    /\ reminders.lock = 0
    /\ Len(reminders.heap) < MaxTimers
    /\ reminders' = [reminders EXCEPT !.lock = t]
    /\ loc' = [loc EXCEPT ![t].task = task_id]
    /\ RemGoto(t, IF task_id \in Tasks THEN "pop" ELSE "refuse")
    /\ RemFrame

\* return False
SetReminderRefuse(t) ==
    /\ RemAt(t, "refuse")
    /\ reminders' = [reminders EXCEPT !.lock = 0]
    /\ RemGoto(t, "idle")
    /\ UNCHANGED loc
    /\ RemFrame

\* old = self._timers.pop(task_id, None)
SchedulePop(t) ==
    LET k == loc[t].task
        has == k \in DOMAIN reminders.timers
    IN  /\ RemAt(t, "pop")
        /\ loc' = [loc EXCEPT ![t].old =
                        IF has THEN reminders.timers[k] ELSE None]
        /\ reminders' = [reminders EXCEPT !.timers = Del(@, k)]
        /\ RemGoto(t, "cancel")
        /\ RemFrame

\* if old: old.cancel()
ScheduleCancel(t) ==
    LET old == loc[t].old IN
    /\ RemAt(t, "cancel")
    /\ reminders' = IF old = None THEN reminders
                    ELSE [reminders EXCEPT !.heap[old] = cancel(@)]
    /\ RemGoto(t, "store")
    /\ UNCHANGED loc
    /\ RemFrame

\* timer = threading.Timer(...); self._timers[task_id] = timer
ScheduleStore(t) ==
    LET k == loc[t].task
        n == Len(reminders.heap) + 1
        seen == [i \in DOMAIN reminders.heap |->
                    IF reminders.heap[i].task = k
                       /\ reminders.heap[i].state = "waiting"
                    THEN [reminders.heap[i] EXCEPT !.superseded = TRUE]
                    ELSE reminders.heap[i]]
    IN  /\ RemAt(t, "store")
        /\ reminders' = [reminders EXCEPT !.heap = Append(seen, Timer(k)),
                                          !.timers = Put(@, k, n)]
        /\ loc' = [loc EXCEPT ![t].timer = n]
        /\ RemGoto(t, "start")
        /\ RemFrame

\* timer.start()
ScheduleStart(t) ==
    /\ RemAt(t, "start")
    /\ reminders' = [reminders EXCEPT !.heap[loc[t].timer].state =
                        IF @ = "created" THEN "waiting" ELSE @]
    /\ RemGoto(t, "record")
    /\ UNCHANGED loc
    /\ RemFrame

\* _record_history("Reminder Set", ...); return True
SetReminderExit(t) ==
    /\ RemAt(t, "record")
    /\ reminders' = [reminders EXCEPT !.history[loc[t].task] = @ + 1,
                                      !.lock = 0]
    /\ RemGoto(t, "idle")
    /\ UNCHANGED loc
    /\ RemFrame

\* Timer.run: the wait is over and finished is not set
TimerExpire(i) ==
    /\ reminders.heap[i].state = "waiting"
    /\ reminders' = [reminders EXCEPT !.heap[i].state = "firing"]
    /\ UNCHANGED <<pc, loc>>
    /\ RemFrame

\* _fire: self._timers.pop(task_id, None)
FirePop(i) ==
    /\ reminders.heap[i].state = "firing"
    /\ reminders' = [reminders EXCEPT !.heap[i].state = "popped",
                                      !.timers = Del(@, reminders.heap[i].task)]
    /\ UNCHANGED <<pc, loc>>
    /\ RemFrame

\* _fire: callback(task_id)
FireCallback(i) ==
    /\ reminders.heap[i].state = "popped"
    /\ reminders' = [reminders EXCEPT !.heap[i].state = "done"]
    /\ UNCHANGED <<pc, loc>>
    /\ RemFrame

RemNext ==
    \/ RemStart
    \/ \E t \in Setters, k \in TaskIds : SetReminderEnter(t, k)
    \/ \E t \in Setters : SetReminderRefuse(t)
    \/ \E t \in Setters : SchedulePop(t)
    \/ \E t \in Setters : ScheduleCancel(t)
    \/ \E t \in Setters : ScheduleStore(t)
    \/ \E t \in Setters : ScheduleStart(t)
    \/ \E t \in Setters : SetReminderExit(t)
    \/ \E i \in DOMAIN reminders.heap : TimerExpire(i)
    \/ \E i \in DOMAIN reminders.heap : FirePop(i)
    \/ \E i \in DOMAIN reminders.heap : FireCallback(i)

RemSpec == Init /\ [][RemNext]_vars

Pending(i) == reminders.heap[i].state = "waiting"

OnePendingPerTask ==
    \A i, j \in DOMAIN reminders.heap :
        Pending(i) /\ Pending(j) /\ i # j =>
            reminders.heap[i].task # reminders.heap[j].task

OverwrittenNeverFires ==
    \A i \in DOMAIN reminders.heap :
        reminders.heap[i].superseded => reminders.heap[i].state # "done"

\* C27: at most one timer is pending per task id, and a timer that was
\* overwritten while it was pending never invokes its callback
SingleReminderPerTask == OnePendingPerTask /\ OverwrittenNeverFires

-----------------------------------------------------------------------------
(* The parking lot: threads calling assign_spot and release_spot *)

\* assign_spot is disabled once this many tickets were issued or are on the way
MaxTickets == 3

Drivers == {1, 2, 3}

VehicleTypes == {MOTORCYCLE, CAR}

ParkLoc ==
    [vehicle |-> None, v_type |-> None, ticket_id |-> None, level |-> 1,
     i |-> 1, spot |-> ""]

ParkStart ==
    /\ pc = <<>>
    /\ pc' = [t \in Drivers |-> "idle"]
    /\ loc' = [t \in Drivers |-> ParkLoc]
    /\ UNCHANGED <<unixfs, others>>

ParkAt(t, label) == pc # <<>> /\ pc[t] = label

ParkGoto(t, label, l) ==
    /\ pc' = [pc EXCEPT ![t] = label]
    /\ loc' = [loc EXCEPT ![t] = l]

ParkFrame == UNCHANGED <<unixfs, vending, atm, reminders, signal, coffee, session>>

Assigning ==
    {t \in Drivers : pc[t] \in {"a_lock", "a_scan", "a_occupy", "a_ticket"}}

\* assign_spot(vehicle_id, v_type) is called; the driver's vehicle id is its number
AssignCall(t, v_type) ==
    /\ ParkAt(t, "idle")
    /\ lot.next_ticket + Cardinality(Assigning) <= MaxTickets
    /\ ParkGoto(t, "a_lock", [ParkLoc EXCEPT !.vehicle = t, !.v_type = v_type])
    /\ UNCHANGED lot
    /\ ParkFrame

\* for level in self.levels: find_and_occupy, with self.lock; return None after
\* the last level
AssignLock(t) ==
    LET l == loc[t] IN
    /\ ParkAt(t, "a_lock")
    /\ IF l.level > Len(Levels)
       THEN /\ ParkGoto(t, "idle", ParkLoc)
            /\ UNCHANGED lot
       ELSE /\ LockFree(lot.level_lock[Levels[l.level]])
            /\ lot' = [lot EXCEPT !.level_lock[Levels[l.level]] = t]
            /\ ParkGoto(t, "a_scan", [l EXCEPT !.i = 1])
    /\ ParkFrame

\* for spot in self.spots: if spot.is_free() and spot.can_fit(v_type)
AssignScan(t) ==
    LET l == loc[t]
        level_id == Levels[l.level]
        spots == SpotsOf(level_id)
    IN  /\ ParkAt(t, "a_scan")
        /\ IF l.i > Len(spots)
           THEN /\ lot' = [lot EXCEPT !.level_lock[level_id] = 0]
                /\ ParkGoto(t, "a_lock", [l EXCEPT !.level = @ + 1])
           ELSE /\ UNCHANGED lot
                /\ IF is_free(lot.occupied_by, spots[l.i])
                      /\ can_fit(spots[l.i], l.v_type)
                   THEN ParkGoto(t, "a_occupy", l)
                   ELSE ParkGoto(t, "a_scan", [l EXCEPT !.i = @ + 1])
        /\ ParkFrame

\* if spot.occupy(vehicle_id): return spot
AssignOccupy(t) ==
    LET l == loc[t]
        level_id == Levels[l.level]
        spot_id == SpotsOf(level_id)[l.i]
        r == occupy(lot.occupied_by, spot_id, l.vehicle)
    IN  /\ ParkAt(t, "a_occupy")
        /\ IF r.ret
           THEN /\ lot' = [lot EXCEPT !.occupied_by = r.occupied_by,
                                      !.level_lock[level_id] = 0]
                /\ ParkGoto(t, "a_ticket", [l EXCEPT !.spot = spot_id])
           ELSE /\ UNCHANGED lot
                /\ ParkGoto(t, "a_scan", [l EXCEPT !.i = @ + 1])
        /\ ParkFrame

\* ticket = ParkingTicket(...); with self.lock: self.tickets[id] = ticket
AssignTicket(t) ==
    LET l == loc[t]
        ticket == ParkingTicket(l.vehicle, Levels[l.level], l.spot)
    IN  /\ ParkAt(t, "a_ticket")
        /\ lot' = [lot EXCEPT !.tickets = Put(@, lot.next_ticket, ticket),
                              !.next_ticket = @ + 1]
        /\ ParkGoto(t, "idle", ParkLoc)
        /\ ParkFrame

\* release_spot(ticket_id): with self.lock: ticket = self.tickets.pop(...);
\* if not ticket: return False
ReleasePop(t, ticket_id) ==
    /\ ParkAt(t, "idle")
    /\ IF ticket_id \in DOMAIN lot.tickets
       THEN /\ lot' = [lot EXCEPT !.tickets = pop(@, ticket_id)]
            /\ ParkGoto(t, "r_free",
                        [ParkLoc EXCEPT !.ticket_id = ticket_id,
                                        !.spot = lot.tickets[ticket_id].spot_id])
       ELSE /\ UNCHANGED lot
            /\ ParkGoto(t, "idle", ParkLoc)
    /\ ParkFrame

\* level.free_spot(ticket.spot_id): spot.free(); return True
ReleaseFree(t) ==
    LET l == loc[t]
        n == IF l.ticket_id \in DOMAIN lot.released
             THEN lot.released[l.ticket_id] ELSE 0
    IN  /\ ParkAt(t, "r_free")
        /\ lot' = [lot EXCEPT !.occupied_by = free_spot(@, l.spot),
                              !.released = Put(@, l.ticket_id, n + 1)]
        /\ ParkGoto(t, "idle", ParkLoc)
        /\ ParkFrame

ParkNext ==
    \/ ParkStart
    \/ \E t \in Drivers, v \in VehicleTypes : AssignCall(t, v)
    \/ \E t \in Drivers : AssignLock(t)
    \/ \E t \in Drivers : AssignScan(t)
    \/ \E t \in Drivers : AssignOccupy(t)
    \/ \E t \in Drivers : AssignTicket(t)
    \/ \E t \in Drivers, k \in 1..MaxTickets : ReleasePop(t, k)
    \/ \E t \in Drivers : ReleaseFree(t)

ParkSpec == Init /\ [][ParkNext]_vars

\* the drivers whose find_and_occupy returned the spot and whose ticket is not
\* stored yet
Arriving(spot_id) ==
    IF pc = <<>> THEN {}
    ELSE {t \in Drivers : pc[t] = "a_ticket" /\ loc[t].spot = spot_id}

\* the outstanding tickets naming the spot
TicketsFor(spot_id) ==
    {k \in DOMAIN lot.tickets : lot.tickets[k].spot_id = spot_id}

\* C28: a spot is held by at most one assignment at a time, whose vehicle
\* occupies it; no two outstanding tickets name the same spot; no ticket id is
\* released successfully twice
SpotsAssignedOnce ==
    /\ \A s \in SpotIds :
          /\ Cardinality(Arriving(s)) + Cardinality(TicketsFor(s)) <= 1
          /\ \A t \in Arriving(s) : lot.occupied_by[s] = loc[t].vehicle
          /\ \A k \in TicketsFor(s) :
                lot.occupied_by[s] = lot.tickets[k].vehicle_id
    /\ \A k \in DOMAIN lot.released : lot.released[k] <= 1

\* a ticket was released, a later ticket is outstanding, and another driver is
\* between find_and_occupy and storing its ticket
SpotsAssignedOnceWitness ==
    /\ \E k \in DOMAIN lot.released, j \in DOMAIN lot.tickets :
          /\ lot.released[k] = 1
          /\ j > k
    /\ \E s \in SpotIds : Arriving(s) # {}

-----------------------------------------------------------------------------
(* The intersection: the cycle thread and a thread delivering emergencies *)

Approaches == {"North", "East"}

\* start(): running = True and the cycle thread is started
SigStart ==
    /\ pc = <<>>
    /\ signal' = [signal EXCEPT !.running = TRUE]
    /\ pc' = [cycle |-> "while", handler |-> "idle"]
    /\ loc' = [cycle |-> [i |-> 1, phase |-> 1],
               handler |-> [i |-> 1, approach |-> ""]]
    /\ UNCHANGED <<unixfs, vending, atm, reminders, lot, coffee, session>>

SigFrame == UNCHANGED <<unixfs, vending, atm, reminders, lot, coffee, session>>

CycleAt(label) == pc # <<>> /\ pc.cycle = label

HandlerAt(label) == pc # <<>> /\ pc.handler = label

CycleGoto(label, i) ==
    /\ pc' = [pc EXCEPT !.cycle = label]
    /\ loc' = [loc EXCEPT !.cycle.i = i]

HandlerGoto(label, i) ==
    /\ pc' = [pc EXCEPT !.handler = label]
    /\ loc' = [loc EXCEPT !.handler.i = i]

\* stop()
SigStop ==
    /\ pc # <<>>
    /\ signal.running
    /\ signal' = [signal EXCEPT !.running = FALSE]
    /\ UNCHANGED <<pc, loc>>
    /\ SigFrame

\* while self.running: phase = self.phases[self.current]
CycleWhile ==
    /\ CycleAt("while")
    /\ IF signal.running
       THEN /\ pc' = [pc EXCEPT !.cycle = "red"]
            /\ loc' = [loc EXCEPT !.cycle = [i |-> 1,
                                             phase |-> signal.current + 1]]
       ELSE /\ pc' = [pc EXCEPT !.cycle = "done"]
            /\ UNCHANGED loc
    /\ UNCHANGED signal
    /\ SigFrame

\* for light in self._all_lights(): light.set_state(RED); then the sleep
CycleRed ==
    LET i == loc.cycle.i IN
    /\ CycleAt("red")
    /\ IF i <= Len(all_lights)
       THEN /\ signal' = [signal EXCEPT !.state = set_state(@, all_lights[i], RED)]
            /\ CycleGoto("red", i + 1)
       ELSE /\ UNCHANGED signal
            /\ CycleGoto("green", 1)
    /\ SigFrame

\* for light in phase.lights: light.set_state(GREEN); then the sleep
CycleGreen ==
    LET i == loc.cycle.i
        lights == Phases[loc.cycle.phase].lights
    IN  /\ CycleAt("green")
        /\ IF i <= Len(lights)
           THEN /\ signal' = [signal EXCEPT !.state = set_state(@, lights[i], GREEN)]
                /\ CycleGoto("green", i + 1)
           ELSE /\ UNCHANGED signal
                /\ CycleGoto("yellow", 1)
        /\ SigFrame

\* for light in phase.lights: light.set_state(YELLOW); then the sleep
CycleYellow ==
    LET i == loc.cycle.i
        lights == Phases[loc.cycle.phase].lights
    IN  /\ CycleAt("yellow")
        /\ IF i <= Len(lights)
           THEN /\ signal' = [signal EXCEPT !.state = set_state(@, lights[i], YELLOW)]
                /\ CycleGoto("yellow", i + 1)
           ELSE /\ UNCHANGED signal
                /\ CycleGoto("advance", 1)
        /\ SigFrame

\* with self.lock: self.current = (self.current + 1) % len(self.phases)
CycleAdvance ==
    /\ CycleAt("advance")
    /\ signal.lock = 0
    /\ signal' = [signal EXCEPT !.current = (@ + 1) % Len(Phases)]
    /\ CycleGoto("while", 1)
    /\ SigFrame

\* handle_emergency(approach): with self.lock
EmergencyEnter(approach) ==
    /\ HandlerAt("idle")
    /\ signal.lock = 0
    /\ signal' = [signal EXCEPT !.lock = 1]
    /\ pc' = [pc EXCEPT !.handler = "red"]
    /\ loc' = [loc EXCEPT !.handler = [i |-> 1, approach |-> approach]]
    /\ SigFrame

\* for light in self._all_lights(): light.set_state(RED); then the sleep
EmergencyRed ==
    LET i == loc.handler.i IN
    /\ HandlerAt("red")
    /\ IF i <= Len(all_lights)
       THEN /\ signal' = [signal EXCEPT !.state = set_state(@, all_lights[i], RED)]
            /\ HandlerGoto("red", i + 1)
       ELSE /\ UNCHANGED signal
            /\ HandlerGoto("green", 1)
    /\ SigFrame

\* the lights of the phases serving the approach are set GREEN
EmergencyGreen ==
    LET i == loc.handler.i
        lights == EmergencyLights(loc.handler.approach)
    IN  /\ HandlerAt("green")
        /\ IF i <= Len(lights)
           THEN /\ signal' = [signal EXCEPT !.state = set_state(@, lights[i], GREEN)]
                /\ HandlerGoto("green", i + 1)
           ELSE /\ UNCHANGED signal
                /\ HandlerGoto("hold", 1)
        /\ SigFrame

\* time.sleep(10) is over: the lock is released and handle_emergency returns
EmergencyReturn ==
    /\ HandlerAt("hold")
    /\ signal' = [signal EXCEPT !.lock = 0]
    /\ HandlerGoto("idle", 1)
    /\ SigFrame

SigNext ==
    \/ SigStart
    \/ SigStop
    \/ CycleWhile
    \/ CycleRed
    \/ CycleGreen
    \/ CycleYellow
    \/ CycleAdvance
    \/ \E a \in Approaches : EmergencyEnter(a)
    \/ EmergencyRed
    \/ EmergencyGreen
    \/ EmergencyReturn

SigSpec == Init /\ [][SigNext]_vars

\* handle_emergency has turned a light green and has not returned
Holding ==
    /\ pc # <<>>
    /\ \/ pc.handler = "hold"
       \/ pc.handler = "green" /\ loc.handler.i > 1

\* C29: while handle_emergency holds an emergency, every light outside the
\* phases serving the emergency approach is RED
EmergencyExclusive ==
    Holding =>
        \A l \in DOMAIN signal.state :
            l \notin Elems(EmergencyLights(loc.handler.approach)) =>
                signal.state[l] = RED

-----------------------------------------------------------------------------
(* Further properties of sequential executions (Spec) *)

\* ceil(end / BLOCK_SIZE)
Ceil(end) == (end + BLOCK_SIZE - 1) \div BLOCK_SIZE

\* the last n ids of the free list, last first: the order allocate pops them in
Popped(fb, n) == [k \in 1..n |-> fb[Len(fb) - k + 1]]

\* C31: create_file allocates no block, and after a write that returns True
\* and ends at end the file holds max(previous block count, ceil(end /
\* BLOCK_SIZE)) blocks: the previous ones followed by the newly allocated ids,
\* once each, in the order the block manager handed them out
LazyMinimalAllocation ==
    /\ \A p \in SplitPaths :
          LET c == create_file(FS, p) IN
          /\ c.fs.free_blocks = free_blocks
          /\ c.fs.data_blocks = data_blocks
          /\ IsTrue(c.ret) => c.fs.heap[Len(c.fs.heap)].blocks = <<>>
    /\ \A p \in Paths, d \in Payloads, o \in Offsets :
          LET w == write(FS, p, d, o) IN
          IsTrue(w.ret) =>
              LET old == BlocksOf(FS, p)
                  new == BlocksOf(w.fs, p)
                  n == Len(new) - Len(old)
              IN  /\ Len(new) = Max(Len(old), Ceil(o + Len(d)))
                  /\ new = old \o Popped(free_blocks, n)
                  /\ NoRepeat(new)
                  /\ w.fs.free_blocks = SubSeq(free_blocks, 1, Len(free_blocks) - n)

\* a file of two blocks in allocation order that takes a write needing none,
\* and a file created since that holds no block
LazyMinimalAllocationWitness ==
    \E p, q \in Paths :
        /\ IsFile(FS, traverse(FS, p)) /\ IsFile(FS, traverse(FS, q))
        /\ BlocksOf(FS, p) = <<1, 0>>
        /\ IsTrue(write(FS, p, <<1>>, 0).ret)
        /\ BlocksOf(write(FS, p, <<1>>, 0).fs, p) = <<1, 0>>
        /\ BlocksOf(FS, q) = <<>>


Files == {a \in DOMAIN heap : ~heap[a].is_dir}

\* positions of file a that a read within its size can index: the first and
\* the last of each block the size reaches, and the last below the size
Reachable(a) ==
    LET edges == {k * BLOCK_SIZE : k \in 0..(Len(heap[a].blocks) + 1)} IN
    {i \in edges \cup {e - 1 : e \in edges} \cup {heap[a].size - 1} :
        0 <= i /\ i < heap[a].size}

\* C32: every file has 0 <= size <= len(blocks) * BLOCK_SIZE, and every id in
\* its block list has a DataBlock in data_blocks, so every position below the
\* size lies in a block that exists
SizeWithinBlocks ==
    \A a \in Files :
        /\ 0 <= heap[a].size
        /\ heap[a].size <= Len(heap[a].blocks) * BLOCK_SIZE
        /\ \A k \in DOMAIN heap[a].blocks : heap[a].blocks[k] \in DOMAIN data_blocks
        /\ \A i \in Reachable(a) :
              /\ (i \div BLOCK_SIZE) + 1 \in DOMAIN heap[a].blocks
              /\ heap[a].blocks[(i \div BLOCK_SIZE) + 1] \in DOMAIN data_blocks

\* a file whose size is exactly its one block, and a file that holds a block
\* beyond its size 0
SizeWithinBlocksWitness ==
    /\ \E a \in Files : heap[a].size = BLOCK_SIZE /\ Len(heap[a].blocks) = 1
    /\ \E a \in Files : heap[a].size = 0 /\ Len(heap[a].blocks) = 1


\* C33: after mkdir(p) or create_file(p) returns True, p resolves to the
\* inode the call created, a Directory for mkdir and a File for create_file
CreatedIsResolved ==
    \A p \in SplitPaths, is_dir \in BOOLEAN :
        LET c == create(FS, p, is_dir) IN
        IsTrue(c.ret) =>
            /\ traverse(c.fs, p) = Len(c.fs.heap)
            /\ c.fs.heap[traverse(c.fs, p)].is_dir = is_dir
            /\ traverse(c.fs, p) \notin DOMAIN heap


Zeros(n) == [i \in 1..n |-> 0]

\* every non-zero byte below the size of file a is one that a write to a stored
OnlyOwnBytes(a) ==
    \A k \in DOMAIN heap[a].blocks :
        \A b \in data_blocks[heap[a].blocks[k]] :
            LET pos == (k - 1) * BLOCK_SIZE + b[1] IN
            pos < heap[a].size => <<a, pos, b[2]>> \in shadow

\* the file at p is deleted, a file is created at q and written at offset k
\* with d: when all three succeed, the k bytes below the write read as zero
FreshAfterDelete(p, q, d, k) ==
    LET f1 == delete(FS, p)
        f2 == create_file(f1.fs, q)
        f3 == write(f2.fs, q, d, k)
    IN  (IsTrue(f1.ret) /\ IsTrue(f2.ret) /\ IsTrue(f3.ret)) =>
            read(f3.fs, q, k, 0).ret = Bytes(Zeros(k))

\* C34: every position below a file's size that no write to the file covered
\* reads as zero, also when the file's blocks belonged to a deleted file
NoStaleBytes ==
    /\ \A a \in RegisteredFiles : OnlyOwnBytes(a)
    /\ \A p, q \in Paths, d \in Payloads, k \in Offsets \ {0} :
          TargetIsFile(p) => FreshAfterDelete(p, q, d, k)

\* a file with a byte at position 0 whose block, after delete and create_file,
\* becomes the first block of a file written at BLOCK_SIZE - 1
NoStaleBytesWitness ==
    \E p, q \in Paths :
        LET f1 == delete(FS, p)
            f2 == create_file(f1.fs, q)
            f3 == write(f2.fs, q, <<1>>, BLOCK_SIZE - 1)
        IN  /\ TargetIsFile(p)
            /\ read(FS, p, 1, 0).ret = Bytes(<<1>>)
            /\ IsTrue(f1.ret) /\ IsTrue(f2.ret) /\ IsTrue(f3.ret)
            /\ BlocksOf(f3.fs, q)[1] = BlocksOf(FS, p)[1]
            /\ read(f3.fs, q, BLOCK_SIZE - 1, 0).ret = Bytes(Zeros(BLOCK_SIZE - 1))


\* C35: a write to a file that returns False (the block manager ran dry) is
\* followed by the same bytes, for every read of that file and of every other
\* path, as before it
FailedWriteCopiesNothing ==
    \A p \in Paths, d \in Payloads, o \in Offsets :
        LET w == write(FS, p, d, o) IN
        (TargetIsFile(p) /\ IsFalse(w.ret)) =>
            \A q \in Paths :
                /\ read(w.fs, q, BLOCK_SIZE + 1, 0).ret = read(FS, q, BLOCK_SIZE + 1, 0).ret
                /\ \A n \in ReadSizes, ro \in ReadOffsets :
                      read(w.fs, q, n, ro).ret = read(FS, q, n, ro).ret

\* a file that holds a byte at position 0 and one block, to which a write
\* across the block boundary fails, while an earlier failed write has left
\* another file a block beyond its size 0
FailedWriteCopiesNothingWitness ==
    /\ \E p \in Paths :
          /\ TargetIsFile(p)
          /\ read(FS, p, 1, 0).ret = Bytes(<<1>>)
          /\ Len(BlocksOf(FS, p)) = 1
          /\ IsFalse(write(FS, p, <<2, 3>>, BLOCK_SIZE - 1).ret)
    /\ \E a \in RegisteredFiles : heap[a].size = 0 /\ Len(heap[a].blocks) = 1

-----------------------------------------------------------------------------
(* Concurrent deletes (DeleteSpec): the main thread creates files /a and /b
   and may write to them, then three threads run: two delete /a or /b each,
   the third deletes /b or /a/b. *)

DeleteCalls == { Call("delete", p, <<>>, 0, 0) : p \in FilePaths }

DeleteNext ==
    \/ ~Started /\ \E p \in FilePaths : CreateFile(p)
    \/ ~Started /\ \E p \in FilePaths, d \in {<<1>>, <<1, 2>>}, o \in Offsets : Write(p, d, o)
    \/ \E c1, c2 \in DeleteCalls, p \in {<<"/", "b">>, <<"/", "a", "/", "b">>} :
           Spawn(<<c1, c2, Call("delete", p, <<>>, 0, 0)>>)
    \/ \E t \in 1..3 : Resolve(t)
    \/ \E t \in 1..3 : DeleteSteps(t)

DeleteSpec == Init /\ [][DeleteNext]_vars

\* how many times blk occurs in the free list fb
Occurrences(fb, blk) == Cardinality({i \in DOMAIN fb : fb[i] = blk})

\* the threads t and u are the only two that delete the path of t, a file when
\* the threads started
DeletePair(t, u) ==
    /\ t # u
    /\ loc[t].call.path = loc[u].call.path
    /\ \A v \in DOMAIN pc \ {t, u} : loc[v].call.path # loc[t].call.path
    /\ IsFile(spawned, traverse(spawned, loc[t].call.path))

\* C36: of two concurrent deletes of one existing file, one returns True and
\* the other False, neither raises, no block of the file is ever in the free
\* list twice, and once both returned each of its blocks is there exactly once
DeleteOnce ==
    \A t, u \in DOMAIN pc :
        DeletePair(t, u) =>
            LET f == traverse(spawned, loc[t].call.path) IN
            /\ \A i \in DOMAIN spawned.heap[f].blocks :
                   Occurrences(free_blocks, spawned.heap[f].blocks[i]) <= 1
            /\ \A v \in {t, u} : pc[v] = "done" => loc[v].ret.kind = "bool"
            /\ (pc[t] = "done" /\ pc[u] = "done") =>
                 /\ IsTrue(loc[t].ret) # IsTrue(loc[u].ret)
                 /\ IsFalse(loc[t].ret) # IsFalse(loc[u].ret)
                 /\ \A i \in DOMAIN spawned.heap[f].blocks :
                        Occurrences(free_blocks, spawned.heap[f].blocks[i]) = 1

\* two deletes of a file of two blocks have both returned
DeleteOnceWitness ==
    \E t, u \in DOMAIN pc :
        /\ DeletePair(t, u)
        /\ pc[t] = "done" /\ pc[u] = "done"
        /\ Len(spawned.heap[traverse(spawned, loc[t].call.path)].blocks) = 2
        /\ IsTrue(loc[t].ret)

-----------------------------------------------------------------------------
(* The coffee machine (CoffeeSpec): two client threads restock, ask
   is_available, call consume, order and collect the cash.  threading.Lock is
   not reentrant: a thread that asks for a lock it holds waits like any other. *)

MaxLevel == 50

MaxRegister == 6

Clients == {1, 2}

RestockQtys == {50}

Payments == { <<100>>, <<100, 100>>, <<100, 25, 25>>, <<100, 25, 25, 10>> }

CoffeeLoc == [call |-> "", coffee_type |-> "", payment |-> <<>>, change |-> <<>>]

CoffeeStart ==
    /\ pc = <<>>
    /\ pc' = [t \in Clients |-> "idle"]
    /\ loc' = [t \in Clients |-> CoffeeLoc]
    /\ UNCHANGED <<unixfs, others>>

CoffeeAt(t, label) == pc # <<>> /\ pc[t] = label

CoffeeGoto(t, label, l) ==
    /\ pc' = [pc EXCEPT ![t] = label]
    /\ loc' = [loc EXCEPT ![t] = l]

CoffeeFrame == UNCHANGED <<unixfs, vending, atm, reminders, lot, signal, session>>

\* the number of coins in the register
InRegister(coins) == Total([i \in 1..Len(CoinsDescending) |-> coins[CoinsDescending[i]]])

\* restock(ing, qty): with self._lock: self._stock[ing] += qty
Restock(t, ing, qty) ==
    /\ CoffeeAt(t, "idle")
    /\ LockFree(coffee.inv_lock)
    /\ coffee.stock[ing] + qty <= MaxLevel
    /\ coffee' = [coffee EXCEPT !.stock = IngredientInventory_restock(@, ing, qty)]
    /\ UNCHANGED <<pc, loc>>
    /\ CoffeeFrame

\* collect_cash()
CollectCash(t) ==
    /\ CoffeeAt(t, "idle")
    /\ coffee' = [coffee EXCEPT !.coins = CashRegister_collect_all(@)]
    /\ UNCHANGED <<pc, loc>>
    /\ CoffeeFrame

\* a client calls inventory.is_available(recipe)
IsAvailableCall(t, coffee_type) ==
    /\ CoffeeAt(t, "idle")
    /\ CoffeeGoto(t, "is_available",
                  [CoffeeLoc EXCEPT !.call = "is_available", !.coffee_type = coffee_type])
    /\ UNCHANGED coffee
    /\ CoffeeFrame

\* a client calls inventory.consume(recipe)
ConsumeCall(t, coffee_type) ==
    /\ CoffeeAt(t, "idle")
    /\ CoffeeGoto(t, "consume",
                  [CoffeeLoc EXCEPT !.call = "consume", !.coffee_type = coffee_type])
    /\ UNCHANGED coffee
    /\ CoffeeFrame

\* order(coffee_type, payment): with self._lock: total = sum(...);
\* if total < coffee.price: return False, payment
OrderLock(t, coffee_type, payment) ==
    /\ CoffeeAt(t, "idle")
    /\ LockFree(coffee.vm_lock)
    /\ InRegister(coffee.coins) + Len(payment) <= MaxRegister
    /\ IF Total(payment) < price(coffee_type)
       THEN UNCHANGED <<coffee, pc, loc>>
       ELSE /\ coffee' = [coffee EXCEPT !.vm_lock = t]
            /\ CoffeeGoto(t, "o_pay",
                          [CoffeeLoc EXCEPT !.call = "order", !.coffee_type = coffee_type,
                                            !.payment = payment])
    /\ CoffeeFrame

\* self.cash.add_payment(payment)
OrderPay(t) ==
    /\ CoffeeAt(t, "o_pay")
    /\ coffee' = [coffee EXCEPT !.coins = add_payment(@, loc[t].payment)]
    /\ CoffeeGoto(t, "o_change", loc[t])
    /\ CoffeeFrame

\* change = self.cash.get_change(change_amt); if change is None: return False,
\* payment; otherwise self.inventory.consume(coffee.recipe) is called
OrderChange(t) ==
    LET l == loc[t]
        g == CashRegister_get_change(coffee.coins, Total(l.payment) - price(l.coffee_type))
    IN  /\ CoffeeAt(t, "o_change")
        /\ IF g.ret.kind = "none"
           THEN /\ coffee' = [coffee EXCEPT !.coins = g.coins, !.vm_lock = 0]
                /\ CoffeeGoto(t, "idle", CoffeeLoc)
           ELSE /\ coffee' = [coffee EXCEPT !.coins = g.coins]
                /\ CoffeeGoto(t, "consume", [l EXCEPT !.change = g.ret.val])
        /\ CoffeeFrame

\* consume: with self._lock: if not self.is_available(recipe)
ConsumeLock(t) ==
    /\ CoffeeAt(t, "consume")
    /\ LockFree(coffee.inv_lock)
    /\ coffee' = [coffee EXCEPT !.inv_lock = t]
    /\ CoffeeGoto(t, "is_available", loc[t])
    /\ CoffeeFrame

\* is_available: with self._lock
IsAvailLock(t) ==
    /\ CoffeeAt(t, "is_available")
    /\ LockFree(coffee.inv_lock)
    /\ coffee' = [coffee EXCEPT !.inv_lock = t]
    /\ CoffeeGoto(t, "ia_body", loc[t])
    /\ CoffeeFrame

\* is_available: return all(...), which releases the lock; then the caller's
\* code: the client's, or the rest of consume and, in order, the roll-back of
\* the payment and the change when consume returned False
IsAvailReturn(t) ==
    LET l == loc[t]
        ok == Sufficient(coffee.stock, recipe(l.coffee_type))
        c == consume_rest(coffee.stock, recipe(l.coffee_type), ok)
    IN  /\ CoffeeAt(t, "ia_body")
        /\ coffee' =
             IF l.call = "is_available" THEN [coffee EXCEPT !.inv_lock = 0]
             ELSE IF l.call = "consume"
             THEN [coffee EXCEPT !.inv_lock = 0, !.stock = c.stock]
             ELSE [coffee EXCEPT !.inv_lock = 0, !.stock = c.stock, !.vm_lock = 0,
                                 !.coins = IF c.ret THEN @
                                           ELSE add_payment(take_payment(@, l.payment),
                                                            l.change)]
        /\ CoffeeGoto(t, "idle", CoffeeLoc)
        /\ CoffeeFrame

CoffeeNext ==
    \/ CoffeeStart
    \/ \E t \in Clients, ing \in Ingredient, qty \in RestockQtys : Restock(t, ing, qty)
    \/ \E t \in Clients : CollectCash(t)
    \/ \E t \in Clients, ct \in CoffeeType : IsAvailableCall(t, ct)
    \/ \E t \in Clients, ct \in CoffeeType : ConsumeCall(t, ct)
    \/ \E t \in Clients, ct \in CoffeeType, p \in Payments : OrderLock(t, ct, p)
    \/ \E t \in Clients : OrderPay(t)
    \/ \E t \in Clients : OrderChange(t)
    \/ \E t \in Clients : ConsumeLock(t)
    \/ \E t \in Clients : IsAvailLock(t)
    \/ \E t \in Clients : IsAvailReturn(t)

CoffeeSpec == Init /\ [][CoffeeNext]_vars

\* a call in progress keeps taking steps, and a thread waiting for a lock that
\* is free again and again gets it
FairCoffeeSpec ==
    /\ CoffeeSpec
    /\ \A t \in Clients :
        /\ WF_vars(OrderPay(t) \/ OrderChange(t) \/ IsAvailReturn(t))
        /\ SF_vars(ConsumeLock(t))
        /\ SF_vars(IsAvailLock(t))

\* C37: a call of consume, made by a client or by order, returns
ConsumeTerminates ==
    \A t \in Clients : CoffeeAt(t, "consume") ~> CoffeeAt(t, "idle")

-----------------------------------------------------------------------------
(* The ATM's session (ATMSpec) *)

\* C38: unless the card inserted last is still in the reader and the last PIN
\* entered since was its own, check_balance returns None and withdraw and
\* deposit return False, and none of them changes an account or the dispenser
SessionGates ==
    ~session.open =>
        /\ check_balance(atm) = [atm |-> atm, ret |-> RetNone]
        /\ \A amount \in WithdrawAmounts :
               ATM_withdraw(atm, amount) = [atm |-> atm, ret |-> FALSE]
        /\ \A deposit_bills \in DepositBills :
               ATM_deposit(atm, deposit_bills) = [atm |-> atm, ret |-> FALSE]

\* card123 is in the reader after a session that changed its balance, and the
\* session is closed (the card was inserted again, or a wrong PIN was entered)
SessionGatesWitness ==
    /\ ~session.open
    /\ session.inserted = "card123"
    /\ atm.accounts["card123"].balance # 100

====
